---------------------------- MODULE Spec2Model ----------------------------
(***************************************************************************)
(* Interval value iteration over the combat-resolution graph of bm_mdp     *)
(* (mdp_opt3.py, the array-based variant; mdp_opt2.py shares everything up *)
(* to Battle.getSuccessorsList).                                           *)
(*                                                                         *)
(* Numbers.  The Python code computes with floats.  Here every probability *)
(* is an exact rational: an integer numerator over a fixed denominator     *)
(* (DenCrit for one action's distribution, DenPair for a Resolve node), and *)
(* every bound (dmin/dmax) is an exact fixed-radix fraction, a sequence of *)
(* digits <<d0, d1, ..., dk>> standing for d0 + d1/Radix + ... + dk/Radix^k.*)
(* Radix holds every prime of the denominators the code divides by (39     *)
(* damage rolls, 512 and 130), so each product and sum is exact.           *)
(***************************************************************************)
EXTENDS Integers, Sequences, FiniteSets, TLC

(***************************************************************************)
(* Bounds of the model.  The code fights one battle (63 hp against 59 hp,  *)
(* 4823 keys); the model fights the same two combatants, same stats,       *)
(* levels and moves, from smaller hit-point ceilings.                      *)
(***************************************************************************)
MaxCharHp == 24
MaxStarHp == 23
MaxSweeps == 3

(***************************************************************************)
(* Program constants.                                                      *)
(***************************************************************************)
RollLow == 217
RollHigh == 255
RollDiv == 255
PotionHeal == 50
CritDivHigh == 64
CritDivLow == 512
PriorityBonus == 10000
WaterGunWeight == 64
BubblebeamWeight == 66
MoveWeightSum == 130

Min(a, b) == IF a < b THEN a ELSE b
Max(a, b) == IF a > b THEN a ELSE b

\* stats_t(atk, df, speed, spec) is the tuple <<atk, df, speed, spec>>.
stats_t(atk, df, speed, spec) == <<atk, df, speed, spec>>
NOMODS == stats_t(0, 0, 0, 0)

fixeddata_t(maxhp, stats, lvl, badges, basespeed) ==
    [maxhp |-> maxhp, stats |-> stats, lvl |-> lvl, badges |-> badges,
     basespeed |-> basespeed]

halfstate_t(fixed, hp, status, statmods, stats) ==
    [fixed |-> fixed, hp |-> hp, status |-> status, statmods |-> statmods,
     stats |-> stats]

plus12(x) == x + x \div 8

\* applyHPChange without the cut at maxhp.
applyHPChangeNoCeiling(hstate, change) ==
    [hstate EXCEPT !.hp = Max(0, hstate.hp + change)]

applyHPChange(hstate, change) ==
    [hstate EXCEPT !.hp = Min(hstate.fixed.maxhp, Max(0, hstate.hp + change))]

applyBadgeBoosts(badges, stats) ==
    [k \in 1..4 |-> IF badges[k] # 0 THEN plus12(stats[k]) ELSE stats[k]]

\* attack_stats_t(power, isspec, stab, te, crit); te2 is twice the float te
\* (0.5, 1.0, 2.0), so that int(x * te) is (x * te2) \div 2.
attack_stats_t(power, isspec, stab, te2, crit) ==
    [power |-> power, isspec |-> isspec, stab |-> stab, te2 |-> te2, crit |-> crit]

attack_data ==
    [a \in {"Ember", "Dig", "Slash", "Water Gun", "Bubblebeam"} |->
        CASE a = "Ember"      -> attack_stats_t(40, TRUE, TRUE, 1, FALSE)
          [] a = "Dig"        -> attack_stats_t(100, FALSE, FALSE, 2, FALSE)
          [] a = "Slash"      -> attack_stats_t(70, FALSE, FALSE, 2, TRUE)
          [] a = "Water Gun"  -> attack_stats_t(40, TRUE, TRUE, 4, FALSE)
          [] a = "Bubblebeam" -> attack_stats_t(65, TRUE, TRUE, 4, FALSE)]

(***************************************************************************)
(* getDamages and getCritDist are wrapped in lru_cache(maxsize=None): one  *)
(* cache each for the whole process, shared by every Battle.               *)
(***************************************************************************)
VARIABLES
    damages_cache,  \* arguments of getDamages -> the list it returned
    crit_cache,     \* arguments of getCritDist -> the dict it returned
    other_keys      \* the keys of crit_cache that another Battle's calls stored

cacheVars == <<damages_cache, crit_cache, other_keys>>

\* A cache keyed by the first argument only.
CacheKeyFirst(args) == <<args[1]>>

\* lru_cache keys an entry by the whole tuple of arguments.
CacheKey(args) == args

\* The wrapper: the entry on a hit, the value the function computes on a miss.
Cached(cache, args, value) ==
    IF CacheKey(args) \in DOMAIN cache THEN cache[CacheKey(args)] ELSE value

\* The 39 damage rolls of one hit, as the sequence the code returns.
getDamagesBody(L, A, D, B, stab, te2) ==
    LET x0 == (2 * L) \div 5
        x1 == ((x0 + 2) * A * B) \div (D * 50) + 2
        x2 == IF stab THEN x1 + x1 \div 2 ELSE x1
        x3 == (x2 * te2) \div 2
    IN  [k \in 1..(RollHigh - RollLow + 1) |-> (x3 * (RollLow + k - 1)) \div RollDiv]

getDamages(L, A, D, B, stab, te2) ==
    Cached(damages_cache, <<L, A, D, B, stab, te2>>,
           getDamagesBody(L, A, D, B, stab, te2))

\* getDamages(*args)
DamagesCall(args) ==
    getDamagesBody(args[1], args[2], args[3], args[4], args[5], args[6])

\* The cache of getDamages once the calls with the arguments of calls have
\* returned: a call that missed has stored the list it computed.
DamagesFill(cache, calls) ==
    [k \in DOMAIN cache \cup {CacheKey(a) : a \in calls} |->
        IF k \in DOMAIN cache THEN cache[k]
        ELSE DamagesCall(CHOOSE a \in calls : CacheKey(a) = k)]

NumRolls == RollHigh - RollLow + 1

\* One action's probabilities are numerators over DenCrit = 39 * 512.
DenCrit == NumRolls * CritDivLow

Count(seq, x) == Cardinality({k \in DOMAIN seq : seq[k] = x})

\* getCritDist: damage -> probability.  pnum is the crit probability p over
\* CritDivLow, already cut at 1.0; mult_norm = (1 - p) / 39 and
\* mult_crit = p / 39 are (CritDivLow - pnum) and pnum over DenCrit.
MergeRolls(p, norm, crit) ==
    [x \in {norm[k] : k \in DOMAIN norm} \cup {crit[k] : k \in DOMAIN crit} |->
        Count(norm, x) * (CritDivLow - p) + Count(crit, x) * p]

getCritDistBody(L, pnum, A1, A2, D1, D2, B, stab, te2) ==
    MergeRolls(Min(pnum, CritDivLow),
               getDamages(L, A1, D1, B, stab, te2),
               getDamages(L * 2, A2, D2, B, stab, te2))

getCritDist(L, pnum, A1, A2, D1, D2, B, stab, te2) ==
    Cached(crit_cache, <<L, pnum, A1, A2, D1, D2, B, stab, te2>>,
           getCritDistBody(L, pnum, A1, A2, D1, D2, B, stab, te2))

\* getCritDist(*args)
CritCall(args) ==
    getCritDistBody(args[1], args[2], args[3], args[4], args[5], args[6],
                    args[7], args[8], args[9])

\* The cache of getCritDist once the calls with the arguments of calls have
\* returned: a call that missed has stored the dict it computed.
CritFill(cache, calls) ==
    [k \in DOMAIN cache \cup {CacheKey(a) : a \in calls} |->
        IF k \in DOMAIN cache THEN cache[k]
        ELSE CritCall(CHOOSE a \in calls : CacheKey(a) = k)]

\* The two getDamages calls a getCritDist call makes when it misses.
DamagesCallsOf(args) ==
    {<<args[1], args[3], args[5], args[7], args[8], args[9]>>,
     <<args[1] * 2, args[4], args[6], args[7], args[8], args[9]>>}


(***************************************************************************)
(* Distributions.  A Python dict key -> probability is a function from the *)
(* set of its keys to numerators.                                          *)
(***************************************************************************)
EmptyDist == [k \in {} |-> 0]

DistGet(dist, k) == IF k \in DOMAIN dist THEN dist[k] ELSE 0

\* dist[k] = p: the entry is overwritten, not added to.
DistOverwrite(dist, add) ==
    [k \in DOMAIN dist \cup DOMAIN add |-> IF k \in DOMAIN add THEN add[k] ELSE dist[k]]

\* dist[k] = dist.get(k, 0.0) + p for every (k, p) of add.
DistAdd(dist, add) ==
    [k \in DOMAIN dist \cup DOMAIN add |-> DistGet(dist, k) + DistGet(add, k)]

RECURSIVE SumOver(_, _)
SumOver(S, f) ==
    IF S = {} THEN 0
    ELSE LET x == CHOOSE y \in S : TRUE IN f[x] + SumOver(S \ {x}, f)

\* The loop over dmg_dist with dist[key] = p: a key that several damage
\* values lead to keeps the probability of the largest of them.
DamageDistLast(me, them, extra, dmg_dist) ==
    LET after(dmg) == <<me, applyHPChange(them, 0 - dmg), extra>>
    IN  [key \in {after(dmg) : dmg \in DOMAIN dmg_dist} |->
            dmg_dist[CHOOSE dmg \in DOMAIN dmg_dist :
                        /\ after(dmg) = key
                        /\ \A d2 \in DOMAIN dmg_dist : after(d2) = key => d2 <= dmg]]

\* A GameState is the tuple <<me, them, extra>>.
\* The loop over dmg_dist: dist[key] = dist.get(key, 0.0) + p.
DamageDist(me, them, extra, dmg_dist) ==
    LET after(dmg) == <<me, applyHPChange(them, 0 - dmg), extra>>
    IN  [key \in {after(dmg) : dmg \in DOMAIN dmg_dist} |->
            SumOver({dmg \in DOMAIN dmg_dist : after(dmg) = key}, dmg_dist)]

\* The arguments _applyActionSide1 passes to getCritDist.
CritArgs(me, them, m, aind, dind, pdiv) ==
    <<me.fixed.lvl, me.fixed.basespeed * (CritDivLow \div pdiv),
      me.stats[aind], me.fixed.stats[aind],
      them.stats[dind], them.fixed.stats[dind],
      m.power, m.stab, m.te2>>

CritDistOf(args) ==
    getCritDist(args[1], args[2], args[3], args[4], args[5], args[6], args[7],
                args[8], args[9])

AttackDist(me, them, extra, m, aind, dind, pdiv) ==
    DamageDist(me, them, extra, CritDistOf(CritArgs(me, them, m, aind, dind, pdiv)))

_applyActionSide1(state, act) ==
    IF act = "Super Potion"
    THEN [k \in {<<applyHPChange(state[1], PotionHeal), state[2], state[3]>>} |->
            DenCrit]
    ELSE AttackDist(state[1], state[2], state[3], attack_data[act],
                    IF attack_data[act].isspec THEN 4 ELSE 1,
                    IF attack_data[act].isspec THEN 4 ELSE 2,
                    IF attack_data[act].crit THEN CritDivHigh ELSE CritDivLow)

\* The side-0 distribution returned as it is, the halves not swapped back.
SwapBackNone(dist) == dist

\* The keys of dist with the two halves swapped back.
SwapBack(dist) ==
    [k2 \in {<<k[2], k[1], k[3]>> : k \in DOMAIN dist} |-> dist[<<k2[2], k2[1], k2[3]>>]]

_applyAction(state, side, act) ==
    IF side = 0
    THEN _applyActionSide1(state, act)
    ELSE SwapBack(_applyActionSide1(<<state[2], state[1], state[3]>>, act))

(***************************************************************************)
(* Keys (statep).  The code's tuples (0, state), (1, state, action),       *)
(* (2, state, side, action) and (4, bool) are records of one shape, the    *)
(* fields a tuple does not have being filled with NoState, 0 and "".       *)
(***************************************************************************)
NoState == <<>>

ProposeKey(state) ==
    [tag |-> 0, state |-> state, side |-> 0, act |-> "", won |-> FALSE]
ResolveKey(state, action) ==
    [tag |-> 1, state |-> state, side |-> 0, act |-> action, won |-> FALSE]
OutcomeKey(state, side, action) ==
    [tag |-> 2, state |-> state, side |-> side, act |-> action, won |-> FALSE]
win  == [tag |-> 4, state |-> NoState, side |-> 0, act |-> "", won |-> TRUE]
loss == [tag |-> 4, state |-> NoState, side |-> 0, act |-> "", won |-> FALSE]

\* Python's order on the keys: tuples compare field by field, strings by
\* code point, False before True.
ActRank(a) ==
    CASE a = ""             -> 0
      [] a = "Bubblebeam"   -> 1
      [] a = "Dig"          -> 2
      [] a = "Ember"        -> 3
      [] a = "Slash"        -> 4
      [] a = "Super Potion" -> 5
      [] a = "Water Gun"    -> 6

HalfVec(h) ==
    <<h.fixed.maxhp>> \o h.fixed.stats \o <<h.fixed.lvl>> \o h.fixed.badges
      \o <<h.fixed.basespeed, h.hp, h.status>> \o h.statmods \o h.stats

KeyVec(k) ==
    CASE k.tag = 0 -> <<0>> \o HalfVec(k.state[1]) \o HalfVec(k.state[2]) \o <<k.state[3]>>
      [] k.tag = 1 -> <<1>> \o HalfVec(k.state[1]) \o HalfVec(k.state[2])
                        \o <<k.state[3], ActRank(k.act)>>
      [] k.tag = 2 -> <<2>> \o HalfVec(k.state[1]) \o HalfVec(k.state[2])
                        \o <<k.state[3], k.side, ActRank(k.act)>>
      [] k.tag = 4 -> <<4, IF k.won THEN 1 ELSE 0>>

SeqLt(a, b) ==
    LET n    == Min(Len(a), Len(b))
        diff == {i \in 1..n : a[i] # b[i]}
    IN  IF diff = {} THEN Len(a) < Len(b)
        ELSE LET i == CHOOSE j \in diff : \A j2 \in diff : j <= j2 IN a[i] < b[i]

KeyLt(a, b) == SeqLt(KeyVec(a), KeyVec(b))

\* A sort key that puts the smaller probability first.
PairBeforeAscending(dist, a, b) ==
    \/ dist[a] < dist[b]
    \/ dist[a] = dist[b] /\ KeyLt(a, b)

\* sorted(dist.items(), key=lambda t: (-t[1], t[0])): the list of pairs
\* <<key, probability>>, greater probability first, then smaller key.
PairBefore(dist, a, b) ==
    \/ dist[a] > dist[b]
    \/ dist[a] = dist[b] /\ KeyLt(a, b)

RECURSIVE SortedOn(_, _)
SortedOn(dist, S) ==
    IF S = {} THEN <<>>
    ELSE LET first == CHOOSE a \in S : \A b \in S \ {a} : PairBefore(dist, a, b)
         IN  <<<<first, dist[first]>>>> \o SortedOn(dist, S \ {first})

SortedPairs(dist) == SortedOn(dist, DOMAIN dist)

(***************************************************************************)
(* Battle: the lazily discovered graph.                                    *)
(***************************************************************************)
\* A Resolve node's probabilities are numerators over DenPair: the opponent's
\* move weight over 130, halved on a speed tie, times one action's DenCrit.
PairDiv == 2 * MoveWeightSum
DenPair == PairDiv * DenCrit

\* The list of _getSuccessorsA with recover first and attack second.
_getSuccessorsASwapped(statep) ==
    <<ResolveKey(statep.state, "Super Potion"), ResolveKey(statep.state, "Dig")>>

_getSuccessorsA(statep) ==
    <<ResolveKey(statep.state, "Dig"), ResolveKey(statep.state, "Super Potion")>>

\* The key a resulting state is filed under with the two sides mistaken for
\* each other: win when side 0 is at hp 0, loss when side 1 is.
ClassifySwapped(newstate, other) ==
    IF newstate[2].hp = 0 THEN loss
    ELSE IF newstate[1].hp = 0 THEN win
    ELSE other

\* The key a resulting state is filed under: loss is tested before win.
Classify(newstate, other) ==
    IF newstate[1].hp = 0 THEN loss
    ELSE IF newstate[2].hp = 0 THEN win
    ELSE other

\* _applyActionPair adds p * pmult to dist for every result of the first
\* action; pmult is a numerator over PairDiv.
PairAdd(res, side2, act2, dist, pmult) ==
    LET kof(ns) == Classify(ns, OutcomeKey(ns, side2, act2))
        add    == [k \in {kof(ns) : ns \in DOMAIN res} |->
                     pmult * SumOver({ns \in DOMAIN res : kof(ns) = k}, res)]
    IN  DistAdd(dist, add)

_applyActionPair(state, side1, act1, side2, act2, dist, pmult) ==
    PairAdd(_applyAction(state, side1, act1), side2, act2, dist, pmult)

\* One branch of the priority test: taken, it adds to dist; not taken, dist
\* is left as it is.
PairIf(taken, state, side1, act1, side2, act2, dist, pmult) ==
    IF taken THEN _applyActionPair(state, side1, act1, side2, act2, dist, pmult)
    ELSE dist

Priority1(state, action) ==
    state[1].stats[3] + (IF action = "Super Potion" THEN PriorityBonus ELSE 0)
Priority2(state) == state[2].stats[3]

\* One round of the loop in which equal priorities let side 0 act first with
\* the whole weight.
ResolveMoveFirstOnly(state, action, eact, w, dist) ==
    IF Priority1(state, action) >= Priority2(state)
    THEN _applyActionPair(state, 0, action, 1, eact, dist, 2 * w)
    ELSE _applyActionPair(state, 1, eact, 0, action, dist, 2 * w)

\* One round of the loop over the opponent's moves in _getSuccessorsB.
ResolveMove(state, action, eact, w, dist) ==
    LET priority1 == Priority1(state, action)
        priority2 == Priority2(state)
        pmult     == IF priority1 = priority2 THEN w ELSE 2 * w
    IN  PairIf(priority1 <= priority2, state, 1, eact, 0, action,
               PairIf(priority1 >= priority2, state, 0, action, 1, eact, dist, pmult),
               pmult)

_getSuccessorsB(statep) ==
    LET d1 == ResolveMove(statep.state, statep.act, "Water Gun", WaterGunWeight,
                          EmptyDist)
        d2 == ResolveMove(statep.state, statep.act, "Bubblebeam", BubblebeamWeight, d1)
    IN  SortedPairs(d2)

\* The loop of _getSuccessorsC over the results of the second action.
OutcomeDist(res) ==
    LET kof(ns) == Classify(ns, ProposeKey(ns))
    IN  [k \in {kof(ns) : ns \in DOMAIN res} |->
            SumOver({ns \in DOMAIN res : kof(ns) = k}, res)]

_getSuccessorsC(statep) ==
    SortedPairs(OutcomeDist(_applyAction(statep.state, statep.side, statep.act)))

\* What getSuccessors stores in self.successors on a miss: the pair
\* (pairs_or_states, states_only).
ComputeSuccessors(statep) ==
    IF statep.tag = 0
    THEN LET sts == _getSuccessorsA(statep) IN <<sts, sts>>
    ELSE LET pairs == IF statep.tag = 1 THEN _getSuccessorsB(statep)
                      ELSE _getSuccessorsC(statep)
         IN  <<pairs, [k \in DOMAIN pairs |-> pairs[k][1]]>>

\* The getCritDist calls of _applyAction(state, side, act).
ActionCalls(state, side, act) ==
    IF act = "Super Potion" THEN {}
    ELSE {CritArgs(state[side + 1], state[2 - side], attack_data[act],
                   IF attack_data[act].isspec THEN 4 ELSE 1,
                   IF attack_data[act].isspec THEN 4 ELSE 2,
                   IF attack_data[act].crit THEN CritDivHigh ELSE CritDivLow)}

\* The getCritDist calls of one round of the loop of _getSuccessorsB.
ResolveCalls(state, action, eact) ==
    (IF Priority1(state, action) >= Priority2(state)
     THEN ActionCalls(state, 0, action) ELSE {})
    \cup (IF Priority1(state, action) <= Priority2(state)
          THEN ActionCalls(state, 1, eact) ELSE {})

\* The getCritDist calls of the successor computation of statep.
SuccessorCalls(statep) ==
    IF statep.tag = 1
    THEN ResolveCalls(statep.state, statep.act, "Water Gun")
           \cup ResolveCalls(statep.state, statep.act, "Bubblebeam")
    ELSE IF statep.tag = 2
    THEN ActionCalls(statep.state, statep.side, statep.act)
    ELSE {}

\* A lookup that reports a miss for every key, cached or not.
MissAlways(cache, statep) == TRUE

\* cached = self.successors.get(statep); a miss is cached being None.
Miss(cache, statep) == statep \notin DOMAIN cache

\* self.successors after getSuccessors(statep), and what the call returns.
CacheAfter(cache, statep) ==
    IF ~Miss(cache, statep) THEN cache
    ELSE [k \in DOMAIN cache \cup {statep} |->
            IF k = statep THEN ComputeSuccessors(statep) ELSE cache[k]]

getSuccessors(cache, statep) == CacheAfter(cache, statep)[statep][1]

\* The process-wide caches after getSuccessors(statep) on the memo table
\* cache: a miss runs the successor computation and with it its getCritDist
\* calls, each of which calls getDamages twice when it misses.
CritCacheAfter(cache, statep) ==
    IF Miss(cache, statep)
    THEN CritFill(crit_cache, SuccessorCalls(statep))
    ELSE crit_cache

DamagesCacheAfter(cache, statep) ==
    IF Miss(cache, statep)
    THEN DamagesFill(damages_cache,
                     UNION {DamagesCallsOf(a) :
                              a \in {c \in SuccessorCalls(statep) :
                                       CacheKey(c) \notin DOMAIN crit_cache}})
    ELSE damages_cache

\* getSuccessorsList without its early return for a terminal: the empty list
\* of the terminal is filed in self.successors like any other.
ListCacheAfterTerminal(cache, statep) ==
    IF statep.tag = 4
    THEN [k \in DOMAIN cache \cup {statep} |->
            IF k = statep THEN <<<<>>, <<>>>> ELSE cache[k]]
    ELSE CacheAfter(cache, statep)

\* getSuccessorsList: a terminal has no successors and is never cached.
ListCacheAfter(cache, statep) ==
    IF statep.tag = 4 THEN cache ELSE CacheAfter(cache, statep)

\* getSuccessorsList cut to the first successor of the list.
getSuccessorsListFirst(cache, statep) ==
    IF statep.tag = 4 THEN <<>>
    ELSE SubSeq(CacheAfter(cache, statep)[statep][2], 1, 1)

getSuccessorsList(cache, statep) ==
    IF statep.tag = 4 THEN <<>> ELSE CacheAfter(cache, statep)[statep][2]

(***************************************************************************)
(* Exact arithmetic on the bounds.  A bound is the digit sequence          *)
(* <<d0, d1, ..., dk>> of d0 + d1/Radix + ... + dk/Radix^k, without        *)
(* trailing zeros.  Radix = 2^7 * 3 * 5 * 13; Radix^2 is a multiple of     *)
(* DenCrit and of DenPair, so a probability is two digits.                 *)
(***************************************************************************)
Radix == 128 * 195

FxZero == <<0>>
FxOne == <<1>>
\* float('-inf'): below every bound.
FxNegInf == <<-1>>

RECURSIVE FxNorm(_)
FxNorm(a) ==
    IF Len(a) > 1 /\ a[Len(a)] = 0 THEN FxNorm(SubSeq(a, 1, Len(a) - 1)) ELSE a

FxPad(a, n) == [i \in 1..n |-> IF i <= Len(a) THEN a[i] ELSE 0]

\* a + b * c digit by digit from the right, the carry running leftwards.
RECURSIVE FxMulAddFrom(_, _, _, _, _, _)
FxMulAddFrom(a, b, c, i, carry, acc) ==
    LET t == a[i] + b[i] * c + carry
    IN  IF i = 1 THEN <<t>> \o acc
        ELSE FxMulAddFrom(a, b, c, i - 1, t \div Radix, <<t % Radix>> \o acc)

\* a + b * c for a small natural c.
FxMulAdd(a, b, c) ==
    LET n == Max(Len(a), Len(b))
    IN  FxMulAddFrom(FxPad(a, n), FxPad(b, n), c, n, 0, <<>>)

FxAdd(a, b) == FxNorm(FxMulAdd(a, b, 1))

\* a / Radix.
FxShift(a) == <<a[1] \div Radix, a[1] % Radix>> \o Tail(a)

\* a * num / den, for den a divisor of Radix^2 and 0 <= num <= den.
FxMulP(a, num, den) ==
    LET scaled == num * ((Radix * Radix) \div den)
        ph     == scaled \div Radix
        pl     == scaled % Radix
    IN  FxNorm(FxShift(FxMulAdd(FxShift(FxMulAdd(FxZero, a, pl)), a, ph)))

FxLess(a, b) ==
    LET n == Max(Len(a), Len(b)) IN SeqLt(FxPad(a, n), FxPad(b, n))

FxLeq(a, b) == ~FxLess(b, a)

\* 0.5 * (a + b)
FxMid(a, b) == FxMulP(FxAdd(a, b), 1, 2)

\* The loop test with its operands exchanged: lo - hi > tolerance.
WidthExceedsSwapped(lo, hi, tol) ==
    IF tol.neg THEN FxLess(hi, FxAdd(lo, tol.mag))
    ELSE FxLess(FxAdd(hi, tol.mag), lo)

\* The while test made with >=: hi - lo >= tolerance.
WidthExceedsOrEqual(lo, hi, tol) ==
    IF tol.neg THEN FxLeq(lo, FxAdd(hi, tol.mag))
    ELSE FxLeq(FxAdd(lo, tol.mag), hi)

\* A tolerance is a sign and a magnitude; hi - lo > tolerance.
WidthExceeds(lo, hi, tol) ==
    IF tol.neg THEN FxLess(lo, FxAdd(hi, tol.mag))
    ELSE FxLess(FxAdd(lo, tol.mag), hi)

(***************************************************************************)
(* The state of one Battle().evaluate(tolerance) call.                     *)
(***************************************************************************)
VARIABLES
    initial_statep, \* the root key built at the top of evaluate
    tolerance,      \* evaluate's argument
    pc,             \* "build", "topo", "test", "sweep" or "done"
    successors,     \* self.successors: key -> (pairs_or_states, states_only)
    q,              \* build_graph's deque
    id_of,          \* build_graph's dict key -> id
    states,         \* id -> key
    kinds,          \* id -> tag
    succ_states,    \* id -> list of ids (Choice), None otherwise
    succ_pairs,     \* id -> list of (id, probability) (Chance), None for a Choice
    dmin_arr,       \* id -> lower bound
    dmax_arr,       \* id -> upper bound
    frozen_a,       \* id -> bool
    stack,          \* topoSort's stack of pairs <<key, state>>
    visited,        \* topoSort's set of visited keys
    results,        \* topoSort's list of finished keys
    order_ids,      \* the elimination order, a sequence of ids
    pos,            \* index into order_ids of the node the sweep is at
    sweeps,         \* sweeps started so far
    result,         \* the value evaluate returns
    ref_lo,         \* reference lower iterate of the Bellman operator
    ref_hi,         \* reference upper iterate of the Bellman operator
    evals,          \* key -> runs of _getSuccessorsA/B/C for that key
    requests,       \* key -> getSuccessors calls made by build_graph for it
    loops,          \* evaluate calls started by bench_mdp's loop so far
    trace,          \* the bound updates of the running call, in order
    first,          \* what the first call went through and returned
    self_min,       \* mdp_opt2's self.min: key -> lower bound, default 0.0
    self_max,       \* mdp_opt2's self.max: key -> upper bound, default 1.0
    self_frozen     \* mdp_opt2's self.frozen: the set of frozen keys

vars == <<initial_statep, tolerance, pc, successors, q, id_of, states, kinds,
          succ_states, succ_pairs, dmin_arr, dmax_arr, frozen_a, stack, visited,
          results, order_ids, pos, sweeps, result, ref_lo, ref_hi, evals,
          requests, loops, trace, first, self_min, self_max, self_frozen,
          damages_cache, crit_cache, other_keys>>

graphVars == <<successors, q, id_of, states, kinds, succ_states, succ_pairs>>
topoVars == <<stack, visited, results>>
solverVars == <<dmin_arr, dmax_arr, frozen_a, order_ids, pos, sweeps, result,
                ref_lo, ref_hi>>
memoVars == <<evals, requests>>
benchVars == <<loops, first>>
dictVars == <<self_min, self_max, self_frozen>>

\* One more call recorded for key k in the call counts f.
Bump(f, k) ==
    [x \in DOMAIN f \cup {k} |->
        IF x = k THEN (IF k \in DOMAIN f THEN f[k] ELSE 0) + 1 ELSE f[x]]

\* The call counts after getSuccessors(statep) on the memo table cache: the
\* successor computation runs on a miss only.
EvalsAfter(f, cache, statep) == IF Miss(cache, statep) THEN Bump(f, statep) ELSE f

\* Python lists indexed from 0 are functions on 0..n-1.
EmptyArr == [i \in {} |-> 0]
ArrLen(arr) == Cardinality(DOMAIN arr)
ArrAppend(arr, x) ==
    [i \in 0..ArrLen(arr) |-> IF i = ArrLen(arr) THEN x ELSE arr[i]]
None == <<-1>>

\* The root key of evaluate, from hit-point ceilings cmax and smax (63 and 59
\* in the code).
RootKey(cmax, smax) ==
    LET badges    == <<1, 0, 0, 0>>
        starfixed == fixeddata_t(smax, stats_t(40, 44, 56, 50), 11, NOMODS, 115)
        starhalf  == halfstate_t(starfixed, smax, 0, NOMODS, stats_t(40, 44, 56, 50))
        charfixed == fixeddata_t(cmax, stats_t(39, 34, 46, 38), 26, badges, 65)
        charhalf  == halfstate_t(charfixed, cmax, 0, NOMODS,
                                 applyBadgeBoosts(badges, stats_t(39, 34, 46, 38)))
    IN  ProposeKey(<<charhalf, starhalf, 0>>)

Roots ==
    {RootKey(c, s) : c \in {MaxCharHp - 4, MaxCharHp}, s \in {MaxStarHp - 2, MaxStarHp}}

\* 0.5, 0.192 and 0.05 (the tolerances of the spec), 0 and -0.5.
Tolerances ==
    { [neg |-> FALSE, mag |-> FxMulP(FxOne, 1, 2)],
      [neg |-> FALSE, mag |-> FxMulP(FxMulP(FxOne, 12, 25), 2, 5)],
      [neg |-> FALSE, mag |-> FxMulP(FxOne, 1, 20)],
      [neg |-> FALSE, mag |-> FxZero],
      [neg |-> TRUE,  mag |-> FxMulP(FxOne, 1, 2)] }

\* The state when evaluate is entered on a fresh Battle, the root drawn from
\* roots and the tolerance from tols.
StartWith(roots, tols) ==
    /\ initial_statep \in roots
    /\ tolerance \in tols
    /\ pc = "build"
    /\ successors = EmptyDist
    /\ q = <<initial_statep>>
    /\ id_of = [k \in {initial_statep} |-> 0]
    /\ states = [i \in {0} |-> initial_statep]
    /\ kinds = EmptyArr
    /\ succ_states = EmptyArr
    /\ succ_pairs = EmptyArr
    /\ dmin_arr = EmptyArr
    /\ dmax_arr = EmptyArr
    /\ frozen_a = EmptyArr
    /\ stack = <<>>
    /\ visited = {}
    /\ results = <<>>
    /\ order_ids = <<>>
    /\ pos = 0
    /\ sweeps = 0
    /\ result = None
    /\ ref_lo = EmptyArr
    /\ ref_hi = EmptyArr
    /\ evals = EmptyDist
    /\ requests = EmptyDist
    /\ loops = 1
    /\ trace = <<>>
    /\ first = None
    /\ self_min = EmptyDist
    /\ self_max = EmptyDist
    /\ self_frozen = {}
    /\ damages_cache = EmptyDist
    /\ crit_cache = EmptyDist
    /\ other_keys = {}

Start(roots) == StartWith(roots, Tolerances)

Init == Start(Roots)

\* Hit-point ceilings of a contest in which two equally likely outcomes of a
\* Resolve node are discovered in the opposite order of their keys.
TieCharHp == 47
TieStarHp == 1
TieRoots == {RootKey(TieCharHp, TieStarHp)}
InitTies == Start(TieRoots)

(***************************************************************************)
(* build_graph: one turn of its while loop per step.                       *)
(***************************************************************************)
\* The inner loop appending every successor to the queue, seen or not.
RECURSIVE DiscoverRequeue(_, _, _, _, _)
DiscoverRequeue(keys, k, ids, sts, queue) ==
    IF k > Len(keys) THEN [id_of |-> ids, states |-> sts, q |-> queue]
    ELSE IF keys[k] \in DOMAIN ids
    THEN DiscoverRequeue(keys, k + 1, ids, sts, Append(queue, keys[k]))
    ELSE DiscoverRequeue(keys, k + 1,
                         [x \in DOMAIN ids \cup {keys[k]} |->
                            IF x = keys[k] THEN ArrLen(sts) ELSE ids[x]],
                         ArrAppend(sts, keys[k]), Append(queue, keys[k]))

\* The inner for loop with q.appendleft(sp2): a new key goes to the front of
\* the queue.
RECURSIVE DiscoverFront(_, _, _, _, _)
DiscoverFront(keys, k, ids, sts, queue) ==
    IF k > Len(keys) THEN [id_of |-> ids, states |-> sts, q |-> queue]
    ELSE IF keys[k] \in DOMAIN ids
    THEN DiscoverFront(keys, k + 1, ids, sts, queue)
    ELSE DiscoverFront(keys, k + 1,
                       [x \in DOMAIN ids \cup {keys[k]} |->
                          IF x = keys[k] THEN ArrLen(sts) ELSE ids[x]],
                       ArrAppend(sts, keys[k]), <<keys[k]>> \o queue)

\* The inner for loop: every key of keys[k..] not yet in id_of gets the next
\* id, is appended to states and to the queue.
RECURSIVE Discover(_, _, _, _, _)
Discover(keys, k, ids, sts, queue) ==
    IF k > Len(keys) THEN [id_of |-> ids, states |-> sts, q |-> queue]
    ELSE LET sp2 == keys[k]
         IN  IF sp2 \in DOMAIN ids
             THEN Discover(keys, k + 1, ids, sts, queue)
             ELSE Discover(keys, k + 1,
                           [x \in DOMAIN ids \cup {sp2} |->
                              IF x = sp2 THEN ArrLen(sts) ELSE ids[x]],
                           ArrAppend(sts, sp2), Append(queue, sp2))

BuildStep ==
    /\ pc = "build"
    /\ q # <<>>
    /\ \E cache \in {IF Head(q).tag = 4 THEN successors
                     ELSE CacheAfter(successors, Head(q))} :
         LET sp   == Head(q)
             st   == sp.tag
             nxt  == IF st = 4 THEN <<>> ELSE cache[sp][1]
             keys == IF st = 4 THEN <<>> ELSE cache[sp][2]
         IN  \E d \in {Discover(keys, 1, id_of, states, Tail(q))} :
               /\ successors' = cache
               /\ q' = d.q
               /\ id_of' = d.id_of
               /\ states' = d.states
               /\ kinds' = ArrAppend(kinds, st)
               /\ succ_states' = ArrAppend(succ_states,
                      IF st = 0 THEN [k \in DOMAIN nxt |-> d.id_of[nxt[k]]]
                      ELSE IF st = 4 THEN <<>> ELSE None)
               /\ succ_pairs' = ArrAppend(succ_pairs,
                      IF st = 0 THEN None
                      ELSE IF st = 4 THEN <<>>
                      ELSE [k \in DOMAIN nxt |-> <<d.id_of[nxt[k][1]], nxt[k][2]>>])
    /\ IF Head(q).tag = 4
       THEN UNCHANGED <<evals, requests, damages_cache, crit_cache>>
       ELSE /\ evals' = EvalsAfter(evals, successors, Head(q))
            /\ requests' = Bump(requests, Head(q))
            /\ crit_cache' = CritCacheAfter(successors, Head(q))
            /\ damages_cache' = DamagesCacheAfter(successors, Head(q))
    /\ UNCHANGED <<initial_statep, tolerance, pc, trace, other_keys>>
    /\ UNCHANGED topoVars
    /\ UNCHANGED solverVars
    /\ UNCHANGED benchVars
    /\ UNCHANGED dictVars

(***************************************************************************)
(* evaluate, from the return of build_graph to the first loop test.        *)
(***************************************************************************)
\* Lower bounds that all start at 1.0.
SeedMinOnes(ids, n) == [i \in 0..(n - 1) |-> FxOne]

\* Upper bounds without the loss seed.
SeedMaxOnes(ids, n) == [i \in 0..(n - 1) |-> FxOne]

\* Frozen flags taken over from the list an earlier call left, when it has
\* the length asked for.
SeedFrozenKept(ids, n) ==
    IF DOMAIN frozen_a = 0..(n - 1) THEN frozen_a
    ELSE [i \in 0..(n - 1) |-> \/ loss \in DOMAIN ids /\ i = ids[loss]
                               \/ win \in DOMAIN ids /\ i = ids[win]]

\* dmin_arr, dmax_arr and frozen_a once the terminals are seeded.
SeedMin(ids, n) ==
    [i \in 0..(n - 1) |-> IF win \in DOMAIN ids /\ i = ids[win] THEN FxOne ELSE FxZero]
SeedMax(ids, n) ==
    [i \in 0..(n - 1) |-> IF loss \in DOMAIN ids /\ i = ids[loss] THEN FxZero ELSE FxOne]
SeedFrozen(ids, n) ==
    [i \in 0..(n - 1) |-> \/ loss \in DOMAIN ids /\ i = ids[loss]
                          \/ win \in DOMAIN ids /\ i = ids[win]]

BuildDone ==
    /\ pc = "build"
    /\ q = <<>>
    /\ dmin_arr' = SeedMin(id_of, ArrLen(states))
    /\ dmax_arr' = SeedMax(id_of, ArrLen(states))
    /\ frozen_a' = SeedFrozen(id_of, ArrLen(states))
    /\ ref_lo' = SeedMin(id_of, ArrLen(states))
    /\ ref_hi' = SeedMax(id_of, ArrLen(states))
    /\ stack' = <<<<initial_statep, 0>>>>
    /\ visited' = {}
    /\ results' = <<>>
    /\ pc' = "topo"
    /\ UNCHANGED <<initial_statep, tolerance, order_ids, pos, sweeps, result,
                   trace>>
    /\ UNCHANGED graphVars
    /\ UNCHANGED memoVars
    /\ UNCHANGED benchVars
    /\ UNCHANGED dictVars
    /\ UNCHANGED cacheVars

(***************************************************************************)
(* topoSort([initial_statep], self.getSuccessorsList): one turn of its     *)
(* while loop per step.  getSuccessorsList fills the memo table on a miss. *)
(* When the stack runs empty the results become order_ids.                 *)
(***************************************************************************)
\* The parents pushed under the entry that is on top of stk.
ExtendBelow(stk, parents) ==
    SubSeq(stk, 1, Len(stk) - 1)
      \o [k \in DOMAIN parents |-> <<parents[k], 0>>]
      \o <<stk[Len(stk)]>>

\* stack.extend((parent, 0) for parent in getParents(current))
Extend(stk, parents) == stk \o [k \in DOMAIN parents |-> <<parents[k], 0>>]

\* A visited test that lets every node through.
UnvisitedAlways(current, seen) == TRUE

\* if current not in visited
Unvisited(current, seen) == current \notin seen

\* One turn of topoSort's while loop.
TopoTurn ==
    /\ stack # <<>>
    /\ LET current == stack[Len(stack)][1]
           state   == stack[Len(stack)][2]
           rest    == SubSeq(stack, 1, Len(stack) - 1)
       IN     IF state = 0
              THEN IF Unvisited(current, visited)
                   THEN /\ visited' = visited \cup {current}
                        /\ stack' = Extend(Append(rest, <<current, 1>>),
                                           getSuccessorsList(successors, current))
                        /\ successors' = ListCacheAfter(successors, current)
                        /\ evals' = IF current.tag = 4 THEN evals
                                     ELSE EvalsAfter(evals, successors, current)
                        /\ crit_cache' = IF current.tag = 4 THEN crit_cache
                                          ELSE CritCacheAfter(successors, current)
                        /\ damages_cache' =
                              IF current.tag = 4 THEN damages_cache
                              ELSE DamagesCacheAfter(successors, current)
                        /\ results' = results
                   ELSE /\ stack' = rest
                        /\ UNCHANGED <<visited, results, successors, evals>>
                        /\ UNCHANGED cacheVars
              ELSE /\ stack' = rest
                   /\ results' = Append(results, current)
                   /\ UNCHANGED <<visited, successors, evals>>
                   /\ UNCHANGED cacheVars

topoSort ==
    /\ pc = "topo"
    /\ TopoTurn
    /\ IF stack' = <<>>
       THEN /\ order_ids' = [k \in DOMAIN results' |-> id_of[results'[k]]]
            /\ pc' = "test"
       ELSE UNCHANGED <<order_ids, pc>>
    /\ UNCHANGED <<initial_statep, tolerance, q, id_of, states, kinds, succ_states,
                   succ_pairs, dmin_arr, dmax_arr, frozen_a, pos, sweeps, result,
                   ref_lo, ref_hi, requests, trace, other_keys>>
    /\ UNCHANGED benchVars
    /\ UNCHANGED dictVars

(***************************************************************************)
(* The value iteration: the while test, and one node of a sweep per step.  *)
(***************************************************************************)
i_init == id_of[initial_statep]

\* Denominator of the probabilities stored for a Chance node of kind k.
ProbDen(k) == IF k = 1 THEN DenPair ELSE DenCrit

\* A Choice node that takes its last successor's bound, not the greatest.
BestOfLast(arr, ids, k, best) == arr[ids[Len(ids)]]

\* A Choice node: the greatest bound among succ_states[i].
RECURSIVE BestOf(_, _, _, _)
BestOf(arr, ids, k, best) ==
    IF k > Len(ids) THEN best
    ELSE BestOf(arr, ids, k + 1, IF FxLess(best, arr[ids[k]]) THEN arr[ids[k]] ELSE best)

\* A Chance node: the sum of bound * p over succ_pairs[i], in list order.
RECURSIVE WeightedSum(_, _, _, _, _)
WeightedSum(arr, pairs, den, k, acc) ==
    IF k > Len(pairs) THEN acc
    ELSE CHOOSE r \in {WeightedSum(arr, pairs, den, k + 1, s) :
                        s \in {FxAdd(acc, FxMulP(arr[pairs[k][1]], pairs[k][2], den))}} :
             TRUE

\* The recomputed bound of node i, before the freezing test.
Recomputed(arr, i) ==
    IF kinds[i] = 0 THEN BestOf(arr, succ_states[i], 1, FxNegInf)
    ELSE IF kinds[i] = 1 \/ kinds[i] = 2
    THEN WeightedSum(arr, succ_pairs[i], ProbDen(kinds[i]), 1, FxZero)
    ELSE arr[i]

\* The loop body without the freezing test.
UpdateNodeNoFreeze(i) ==
    IF frozen_a[i]
    THEN [lo |-> dmin_arr[i], hi |-> dmax_arr[i], frozen |-> TRUE]
    ELSE [lo |-> Recomputed(dmin_arr, i), hi |-> Recomputed(dmax_arr, i),
          frozen |-> FALSE]

\* The loop body whose skip of a frozen node clears its flag.
UpdateNodeUnfreeze(i) ==
    IF frozen_a[i]
    THEN [lo |-> dmin_arr[i], hi |-> dmax_arr[i], frozen |-> FALSE]
    ELSE IF FxLeq(Recomputed(dmax_arr, i), Recomputed(dmin_arr, i))
    THEN [lo |-> FxMid(Recomputed(dmin_arr, i), Recomputed(dmax_arr, i)),
          hi |-> FxMid(Recomputed(dmin_arr, i), Recomputed(dmax_arr, i)),
          frozen |-> TRUE]
    ELSE [lo |-> Recomputed(dmin_arr, i), hi |-> Recomputed(dmax_arr, i),
          frozen |-> FALSE]

\* The loop body whose freezing test is lo <= hi: a node is frozen at the
\* midpoint of an interval that is still open.
UpdateNodeInverted(i) ==
    IF frozen_a[i]
    THEN [lo |-> dmin_arr[i], hi |-> dmax_arr[i], frozen |-> TRUE]
    ELSE IF FxLeq(Recomputed(dmin_arr, i), Recomputed(dmax_arr, i))
    THEN [lo |-> FxMid(Recomputed(dmin_arr, i), Recomputed(dmax_arr, i)),
          hi |-> FxMid(Recomputed(dmin_arr, i), Recomputed(dmax_arr, i)),
          frozen |-> TRUE]
    ELSE [lo |-> Recomputed(dmin_arr, i), hi |-> Recomputed(dmax_arr, i),
          frozen |-> FALSE]

\* The body of the for loop for node i: the new dmin_arr[i], dmax_arr[i] and
\* frozen_a[i].
UpdateNode(i) ==
    IF frozen_a[i]
    THEN [lo |-> dmin_arr[i], hi |-> dmax_arr[i], frozen |-> TRUE]
    ELSE LET lo == Recomputed(dmin_arr, i)
             hi == Recomputed(dmax_arr, i)
         IN  IF FxLeq(hi, lo)
             THEN [lo |-> FxMid(lo, hi), hi |-> FxMid(lo, hi), frozen |-> TRUE]
             ELSE [lo |-> lo, hi |-> hi, frozen |-> FALSE]

\* The while test holds: a sweep starts.
SweepStart ==
    /\ pc = "test"
    /\ WidthExceeds(dmin_arr[i_init], dmax_arr[i_init], tolerance)
    /\ sweeps < MaxSweeps
    /\ pc' = "sweep"
    /\ pos' = 1
    /\ sweeps' = sweeps + 1
    /\ UNCHANGED <<initial_statep, tolerance, dmin_arr, dmax_arr, frozen_a,
                   order_ids, result, ref_lo, ref_hi, trace>>
    /\ UNCHANGED benchVars
    /\ UNCHANGED dictVars
    /\ UNCHANGED topoVars
    /\ UNCHANGED graphVars
    /\ UNCHANGED memoVars
    /\ UNCHANGED cacheVars

\* The reference iterate: the Bellman backup of node i (Choice: max over the
\* successors; Chance: probability-weighted sum), nothing ever frozen.
RefBackup(arr, i) ==
    IF kinds[i] = 0
    THEN LET vals == {arr[succ_states[i][k]] : k \in DOMAIN succ_states[i]}
         IN  CHOOSE v \in vals : \A w \in vals : FxLeq(w, v)
    ELSE IF kinds[i] = 4 THEN arr[i]
    ELSE WeightedSum(arr, succ_pairs[i], ProbDen(kinds[i]), 1, FxZero)

SweepStep ==
    /\ pc = "sweep"
    /\ \E u \in {UpdateNode(order_ids[pos])} :
         LET i == order_ids[pos]
         IN  /\ dmin_arr' = [dmin_arr EXCEPT ![i] = u.lo]
             /\ dmax_arr' = [dmax_arr EXCEPT ![i] = u.hi]
             /\ frozen_a' = [frozen_a EXCEPT ![i] = u.frozen]
             /\ ref_lo' = [ref_lo EXCEPT ![i] = RefBackup(ref_lo, i)]
             /\ ref_hi' = [ref_hi EXCEPT ![i] = RefBackup(ref_hi, i)]
             /\ trace' = Append(trace, <<i, u.lo, u.hi, u.frozen>>)
    /\ IF pos = Len(order_ids)
       THEN pc' = "test" /\ pos' = 0
       ELSE pc' = "sweep" /\ pos' = pos + 1
    /\ UNCHANGED <<initial_statep, tolerance, order_ids, sweeps, result>>
    /\ UNCHANGED benchVars
    /\ UNCHANGED dictVars
    /\ UNCHANGED topoVars
    /\ UNCHANGED graphVars
    /\ UNCHANGED memoVars
    /\ UNCHANGED cacheVars

\* The while test fails: evaluate returns the midpoint of the root's bounds.
Return ==
    /\ pc = "test"
    /\ ~WidthExceeds(dmin_arr[i_init], dmax_arr[i_init], tolerance)
    /\ pc' = "done"
    /\ result' = FxMid(dmax_arr[i_init], dmin_arr[i_init])
    /\ UNCHANGED <<initial_statep, tolerance, dmin_arr, dmax_arr, frozen_a,
                   order_ids, pos, sweeps, ref_lo, ref_hi, trace>>
    /\ UNCHANGED benchVars
    /\ UNCHANGED dictVars
    /\ UNCHANGED topoVars
    /\ UNCHANGED graphVars
    /\ UNCHANGED memoVars
    /\ UNCHANGED cacheVars

Next == BuildStep \/ BuildDone \/ topoSort \/ SweepStart \/ SweepStep \/ Return

(***************************************************************************)
(* bench_mdp: result = Battle().evaluate(tolerance) once per loop.  The    *)
(* next turn of the loop makes a new Battle, whose memo table is empty,    *)
(* and enters its evaluate and build_graph; the lists the finished call    *)
(* held stay as they were until the new call binds its own.                *)
(***************************************************************************)
MaxLoops == 2

bench_mdp ==
    /\ pc = "done"
    /\ loops < MaxLoops
    /\ loops' = loops + 1
    /\ first' = IF loops = 1
                THEN [order_ids |-> order_ids, trace |-> trace, result |-> result]
                ELSE first
    /\ trace' = <<>>
    /\ pc' = "build"
    /\ successors' = EmptyDist
    /\ evals' = EmptyDist
    /\ requests' = EmptyDist
    /\ q' = <<initial_statep>>
    /\ id_of' = [k \in {initial_statep} |-> 0]
    /\ states' = [i \in {0} |-> initial_statep]
    /\ kinds' = EmptyArr
    /\ succ_states' = EmptyArr
    /\ succ_pairs' = EmptyArr
    /\ sweeps' = 0
    /\ UNCHANGED <<initial_statep, tolerance, dmin_arr, dmax_arr, frozen_a,
                   order_ids, pos, result, ref_lo, ref_hi>>
    /\ UNCHANGED topoVars
    /\ UNCHANGED dictVars
    /\ UNCHANGED cacheVars

NextBench ==
    \/ BuildStep \/ BuildDone \/ topoSort \/ SweepStart \/ SweepStep \/ Return
    \/ bench_mdp

(***************************************************************************)
(* mdp_opt2: evaluate keeps its bounds in self.min, self.max and           *)
(* self.frozen, dictionaries on the keys that Battle.__init__ creates, and *)
(* iterates over the keys topoSort returns.                                *)
(***************************************************************************)
\* d[k] of a defaultdict.
DictGet(d, k, default) == IF k \in DOMAIN d THEN d[k] ELSE default

\* d[k] = v
DictSet(d, k, v) == [x \in DOMAIN d \cup {k} |-> IF x = k THEN v ELSE d[x]]

\* The bounds of the keys of the list keys, as the loops over succ read them.
DictView(d, keys, default) ==
    [x \in {keys[k] : k \in DOMAIN keys} |-> DictGet(d, x, default)]

\* best_min / smin (from self.min) or best_max / smax (from self.max) of key
\* sp, whose cached successors are entry.
DictRecomputed(d, default, sp, entry) ==
    IF sp.tag = 0
    THEN BestOf(DictView(d, entry[2], default), entry[1], 1, FxNegInf)
    ELSE WeightedSum(DictView(d, entry[2], default), entry[1], ProbDen(sp.tag),
                     1, FxZero)

\* The freezing test made with >: a key whose bounds have met is not frozen.
DictFreezeStrict(lo, hi) ==
    IF FxLess(hi, lo)
    THEN [lo |-> FxMid(lo, hi), hi |-> FxMid(lo, hi), frozen |-> TRUE]
    ELSE [lo |-> lo, hi |-> hi, frozen |-> FALSE]

DictFreeze(lo, hi) ==
    IF FxLeq(hi, lo)
    THEN [lo |-> FxMid(lo, hi), hi |-> FxMid(lo, hi), frozen |-> TRUE]
    ELSE [lo |-> lo, hi |-> hi, frozen |-> FALSE]

\* The body of the for loop for a key that is not frozen.
DictUpdate(sp, entry) ==
    DictFreeze(DictRecomputed(self_min, FxZero, sp, entry),
               DictRecomputed(self_max, FxOne, sp, entry))

\* Battle() followed by the entry of evaluate(tolerance).
InitDict ==
    /\ initial_statep \in Roots
    /\ tolerance \in Tolerances
    /\ pc = "stateps"
    /\ successors = EmptyDist
    /\ self_min = [k \in {win} |-> FxOne]
    /\ self_max = [k \in {loss} |-> FxZero]
    /\ self_frozen = {win, loss}
    /\ damages_cache = EmptyDist
    /\ crit_cache = EmptyDist
    /\ other_keys = {}
    /\ stack = <<<<initial_statep, 0>>>>
    /\ visited = {}
    /\ results = <<>>
    /\ q = <<>>
    /\ id_of = EmptyDist
    /\ states = EmptyArr
    /\ kinds = EmptyArr
    /\ succ_states = EmptyArr
    /\ succ_pairs = EmptyArr
    /\ dmin_arr = EmptyArr
    /\ dmax_arr = EmptyArr
    /\ frozen_a = EmptyArr
    /\ order_ids = <<>>
    /\ pos = 0
    /\ sweeps = 0
    /\ result = None
    /\ ref_lo = EmptyArr
    /\ ref_hi = EmptyArr
    /\ evals = EmptyDist
    /\ requests = EmptyDist
    /\ loops = 1
    /\ trace = <<>>
    /\ first = None

arrayVars == <<q, id_of, states, kinds, succ_states, succ_pairs, dmin_arr,
               dmax_arr, frozen_a, order_ids, ref_lo, ref_hi, requests, trace>>

\* stateps = topoSort([initial_statep], self.getSuccessorsList)
DictTopoSort ==
    /\ pc = "stateps"
    /\ TopoTurn
    /\ pc' = IF stack' = <<>> THEN "dtest" ELSE "stateps"
    /\ UNCHANGED <<initial_statep, tolerance, pos, sweeps, result, other_keys>>
    /\ UNCHANGED arrayVars
    /\ UNCHANGED benchVars
    /\ UNCHANGED dictVars

DictSweepStart ==
    /\ pc = "dtest"
    /\ WidthExceeds(DictGet(self_min, initial_statep, FxZero),
                    DictGet(self_max, initial_statep, FxOne), tolerance)
    /\ sweeps < MaxSweeps
    /\ pc' = "dsweep"
    /\ pos' = 1
    /\ sweeps' = sweeps + 1
    /\ UNCHANGED <<initial_statep, tolerance, result, successors, evals>>
    /\ UNCHANGED topoVars
    /\ UNCHANGED arrayVars
    /\ UNCHANGED benchVars
    /\ UNCHANGED dictVars
    /\ UNCHANGED cacheVars

DictSweepStep ==
    /\ pc = "dsweep"
    /\ IF results[pos] \in self_frozen
       THEN UNCHANGED <<successors, evals, self_min, self_max, self_frozen,
                        damages_cache, crit_cache>>
       ELSE /\ successors' = CacheAfter(successors, results[pos])
            /\ crit_cache' = CritCacheAfter(successors, results[pos])
            /\ damages_cache' = DamagesCacheAfter(successors, results[pos])
            /\ evals' = EvalsAfter(evals, successors, results[pos])
            /\ \E u \in {DictUpdate(results[pos], successors'[results[pos]])} :
                 /\ self_min' = DictSet(self_min, results[pos], u.lo)
                 /\ self_max' = DictSet(self_max, results[pos], u.hi)
                 /\ self_frozen' = IF u.frozen THEN self_frozen \cup {results[pos]}
                                   ELSE self_frozen
    /\ IF pos = Len(results)
       THEN pc' = "dtest" /\ pos' = 0
       ELSE pc' = "dsweep" /\ pos' = pos + 1
    /\ UNCHANGED <<initial_statep, tolerance, sweeps, result, other_keys>>
    /\ UNCHANGED topoVars
    /\ UNCHANGED arrayVars
    /\ UNCHANGED benchVars

DictReturn ==
    /\ pc = "dtest"
    /\ ~WidthExceeds(DictGet(self_min, initial_statep, FxZero),
                     DictGet(self_max, initial_statep, FxOne), tolerance)
    /\ pc' = "ddone"
    /\ result' = FxMid(DictGet(self_max, initial_statep, FxOne),
                       DictGet(self_min, initial_statep, FxZero))
    /\ UNCHANGED <<initial_statep, tolerance, pos, sweeps, successors, evals>>
    /\ UNCHANGED topoVars
    /\ UNCHANGED arrayVars
    /\ UNCHANGED benchVars
    /\ UNCHANGED dictVars
    /\ UNCHANGED cacheVars

\* The calls of evaluate made on one Battle.
MaxCalls == 3

\* Another evaluate on the same Battle: with any tolerance after the first
\* call, with the first call's tolerance after the second.
DictEvaluateAgain ==
    /\ pc = "ddone"
    /\ loops < MaxCalls
    /\ loops' = loops + 1
    /\ first' = IF loops = 1 THEN [tolerance |-> tolerance, result |-> result]
                ELSE first
    /\ tolerance' \in IF loops = 1 THEN Tolerances ELSE {first.tolerance}
    /\ pc' = "stateps"
    /\ stack' = <<<<initial_statep, 0>>>>
    /\ visited' = {}
    /\ results' = <<>>
    /\ sweeps' = 0
    /\ UNCHANGED <<initial_statep, pos, result, successors, evals>>
    /\ UNCHANGED arrayVars
    /\ UNCHANGED dictVars
    /\ UNCHANGED cacheVars

NextDict ==
    \/ DictTopoSort \/ DictSweepStart \/ DictSweepStep \/ DictReturn
    \/ DictEvaluateAgain

SpecDict == InitDict /\ [][NextDict]_vars

(***************************************************************************)
(* Two Battles of one process, each in its own evaluate.  Each has its own *)
(* self.successors and its own lists; getDamages and getCritDist keep one  *)
(* cache each for the module.  The other Battle acts on this one through   *)
(* those caches alone: a call of it that misses stores the value the       *)
(* function computes.  The first evaluate of a behaviour runs alone, the   *)
(* later ones run in a new process next to the other Battle.               *)
(***************************************************************************)
SharedRoots == {RootKey(MaxCharHp, MaxStarHp - 2)}
InitShared == Start(SharedRoots)

\* The getCritDist calls the other Battle makes: it evaluates the same
\* contest, and these are the calls of the Resolve nodes of its root.
OtherCalls ==
    LET first_moves == _getSuccessorsA(initial_statep)
    IN  UNION {SuccessorCalls(first_moves[k]) : k \in DOMAIN first_moves}

\* The process starts anew: the module's caches are empty, a new Battle is
\* made and its evaluate entered.
NewProcess ==
    /\ pc = "done"
    /\ loops < MaxLoops
    /\ loops' = loops + 1
    /\ first' = IF loops = 1
                THEN [order_ids |-> order_ids, trace |-> trace, result |-> result]
                ELSE first
    /\ trace' = <<>>
    /\ pc' = "build"
    /\ successors' = EmptyDist
    /\ evals' = EmptyDist
    /\ requests' = EmptyDist
    /\ q' = <<initial_statep>>
    /\ id_of' = [k \in {initial_statep} |-> 0]
    /\ states' = [i \in {0} |-> initial_statep]
    /\ kinds' = EmptyArr
    /\ succ_states' = EmptyArr
    /\ succ_pairs' = EmptyArr
    /\ sweeps' = 0
    /\ damages_cache' = EmptyDist
    /\ crit_cache' = EmptyDist
    /\ other_keys' = {}
    /\ UNCHANGED <<initial_statep, tolerance, dmin_arr, dmax_arr, frozen_a,
                   order_ids, pos, result, ref_lo, ref_hi>>
    /\ UNCHANGED topoVars
    /\ UNCHANGED dictVars

battleVars == <<initial_statep, tolerance, pc, successors, q, id_of, states,
                kinds, succ_states, succ_pairs, dmin_arr, dmax_arr, frozen_a,
                stack, visited, results, order_ids, pos, sweeps, result, ref_lo,
                ref_hi, evals, requests, loops, trace, first, self_min, self_max,
                self_frozen>>

\* The other Battle's getCritDist has missed and calls getDamages, which
\* misses and stores its list.
OtherGetDamages ==
    /\ loops > 1
    /\ \E c \in OtherCalls : \E a \in DamagesCallsOf(c) :
         /\ CacheKey(c) \notin DOMAIN crit_cache
         /\ CacheKey(a) \notin DOMAIN damages_cache
         /\ damages_cache' = DamagesFill(damages_cache, {a})
    /\ UNCHANGED <<crit_cache, other_keys>>
    /\ UNCHANGED battleVars

\* The other Battle's getCritDist, both its getDamages calls returned, stores
\* its dict.
OtherGetCritDist ==
    /\ loops > 1
    /\ \E c \in OtherCalls :
         /\ CacheKey(c) \notin DOMAIN crit_cache
         /\ \A a \in DamagesCallsOf(c) : CacheKey(a) \in DOMAIN damages_cache
         /\ crit_cache' = CritFill(crit_cache, {c})
         /\ other_keys' = other_keys \cup {CacheKey(c)}
    /\ UNCHANGED damages_cache
    /\ UNCHANGED battleVars

NextShared ==
    \/ BuildStep \/ BuildDone \/ topoSort \/ SweepStart \/ SweepStep \/ Return
    \/ NewProcess \/ OtherGetDamages \/ OtherGetCritDist

SpecShared == InitShared /\ [][NextShared]_vars

(***************************************************************************)
(* The priority test of _getSuccessorsB on contests whose sides are as     *)
(* fast as each other or nearly so.  evaluate's own contest has the first  *)
(* side slower than the second; here the first side's speed is drawn from  *)
(* the speeds at most MaxSpeedGap away from the second side's.             *)
(***************************************************************************)
MaxSpeedGap == 1

\* RootKey(cmax, smax) with the speed of the first side set to speed.
SpeedKey(cmax, smax, speed) ==
    LET state == RootKey(cmax, smax).state
        half  == [state[1] EXCEPT !.stats = [@ EXCEPT ![3] = speed],
                                  !.fixed = [@ EXCEPT !.stats = [@ EXCEPT ![3] = speed]]]
    IN  ProposeKey(<<half, state[2], state[3]>>)

SpeedRoots ==
    LET root == RootKey(MaxCharHp, MaxStarHp)
    IN  {SpeedKey(MaxCharHp, MaxStarHp, Priority2(root.state) + gap) :
            gap \in (0 - MaxSpeedGap)..MaxSpeedGap}

InitSpeeds == Start(SpeedRoots)
SpecSpeeds == InitSpeeds /\ [][Next]_vars

(***************************************************************************)
(* evaluate with its elimination order replaced.  The first evaluate of a  *)
(* behaviour sweeps in the order topoSort returned; then the bounds are    *)
(* seeded anew on the same graph and the loop is run again over another    *)
(* order of the same ids.                                                  *)
(***************************************************************************)
\* Up to this many ids every order of them is tried; of a longer order, its
\* rotations and their reversals.
MaxPermuted == 6

RECURSIVE Perms(_)
Perms(S) ==
    IF S = {} THEN {<<>>}
    ELSE UNION {{<<x>> \o p : p \in Perms(S \ {x})} : x \in S}

Rotated(order, r) ==
    [k \in DOMAIN order |-> order[((k + r - 1) % Len(order)) + 1]]

Reversed(order) == [k \in DOMAIN order |-> order[Len(order) + 1 - k]]

\* Sequences that leave one id of order out.
OrdersDropping(order) ==
    {SubSeq(order, 1, k - 1) \o SubSeq(order, k + 1, Len(order)) : k \in DOMAIN order}

\* The orders put in the place of order: permutations of its ids.
Orders(order) ==
    IF Len(order) <= MaxPermuted
    THEN Perms({order[k] : k \in DOMAIN order})
    ELSE {Rotated(order, r) : r \in 0..(Len(order) - 1)}
           \cup {Reversed(Rotated(order, r)) : r \in 0..(Len(order) - 1)}

OrderRoots == {RootKey(MaxCharHp - 4, MaxStarHp - 2)}
InitOrders == Start(OrderRoots)

\* The loop of evaluate entered again on the graph already built, the bounds
\* seeded as at the first entry and order_ids replaced.
Reorder ==
    /\ pc = "done"
    /\ loops = 1
    /\ loops' = 2
    /\ first' = [order_ids |-> order_ids, lo |-> dmin_arr, hi |-> dmax_arr,
                 frozen |-> frozen_a, sweeps |-> sweeps, result |-> result]
    /\ order_ids' \in Orders(order_ids)
    /\ dmin_arr' = SeedMin(id_of, ArrLen(states))
    /\ dmax_arr' = SeedMax(id_of, ArrLen(states))
    /\ frozen_a' = SeedFrozen(id_of, ArrLen(states))
    /\ ref_lo' = SeedMin(id_of, ArrLen(states))
    /\ ref_hi' = SeedMax(id_of, ArrLen(states))
    /\ sweeps' = 0
    /\ pos' = 0
    /\ trace' = <<>>
    /\ pc' = "test"
    /\ UNCHANGED <<initial_statep, tolerance, result>>
    /\ UNCHANGED graphVars
    /\ UNCHANGED topoVars
    /\ UNCHANGED memoVars
    /\ UNCHANGED dictVars
    /\ UNCHANGED cacheVars

NextOrders ==
    \/ BuildStep \/ BuildDone \/ topoSort \/ SweepStart \/ SweepStep \/ Return
    \/ Reorder

SpecOrders == InitOrders /\ [][NextOrders]_vars

(***************************************************************************)
(* The two variants side by side: mdp_opt3's evaluate on a new Battle,     *)
(* then mdp_opt2's evaluate on a new Battle of its own with the same       *)
(* tolerance.  The dict-based call leaves the lists of the array-based     *)
(* call and the record of its updates as they are.                         *)
(***************************************************************************)
DictAfterArray ==
    /\ pc = "done"
    /\ loops = 1
    /\ loops' = 2
    /\ first' = [sweeps |-> sweeps, result |-> result]
    /\ pc' = "stateps"
    /\ successors' = EmptyDist
    /\ evals' = EmptyDist
    /\ self_min' = [k \in {win} |-> FxOne]
    /\ self_max' = [k \in {loss} |-> FxZero]
    /\ self_frozen' = {win, loss}
    /\ stack' = <<<<initial_statep, 0>>>>
    /\ visited' = {}
    /\ results' = <<>>
    /\ sweeps' = 0
    /\ pos' = 0
    /\ UNCHANGED <<initial_statep, tolerance, result>>
    /\ UNCHANGED arrayVars
    /\ UNCHANGED cacheVars

NextBoth ==
    \/ BuildStep \/ BuildDone \/ topoSort \/ SweepStart \/ SweepStep \/ Return
    \/ DictAfterArray
    \/ DictTopoSort \/ DictSweepStart \/ DictSweepStep \/ DictReturn

SpecBoth == Init /\ [][NextBoth]_vars

(***************************************************************************)
(* evaluate called with a tolerance on either side of the width 1 of the   *)
(* root's initial interval, the array-based variant and then the           *)
(* dict-based one.                                                         *)
(***************************************************************************)
\* 2, 1, 1 - 1/Radix and 0.5.
EdgeTolerances ==
    { [neg |-> FALSE, mag |-> <<2>>],
      [neg |-> FALSE, mag |-> FxOne],
      [neg |-> FALSE, mag |-> <<0, Radix - 1>>],
      [neg |-> FALSE, mag |-> FxMulP(FxOne, 1, 2)] }

InitEdge == StartWith(Roots, EdgeTolerances)
SpecEdge == InitEdge /\ [][NextBoth]_vars

Spec == Init /\ [][Next]_vars
SpecTies == InitTies /\ [][Next]_vars
SpecBench == Init /\ [][NextBench]_vars

(***************************************************************************)
(* topoSort(roots, getParents) on its own: getParents reads a successor    *)
(* table that holds any graph on MaxTopoNodes nodes, every successor list  *)
(* without repetition and in ascending order.                              *)
(***************************************************************************)
MaxTopoNodes == 3
TopoKeys == {ProposeKey(n) : n \in 1..MaxTopoNodes}
TopoLists ==
    UNION {{l \in [1..m -> TopoKeys] : \A i, j \in 1..m : i < j => l[i].state < l[j].state}
           : m \in 0..MaxTopoNodes}
TopoGraphs == [TopoKeys -> {<<l, l>> : l \in TopoLists}]

InitTopo ==
    /\ initial_statep = ProposeKey(1)
    /\ tolerance = [neg |-> FALSE, mag |-> FxZero]
    /\ pc = "topo"
    /\ successors \in TopoGraphs
    /\ q = <<>>
    /\ id_of = [k \in TopoKeys |-> k.state - 1]
    /\ states = [i \in 0..(MaxTopoNodes - 1) |-> ProposeKey(i + 1)]
    /\ kinds = EmptyArr
    /\ succ_states = EmptyArr
    /\ succ_pairs = EmptyArr
    /\ dmin_arr = EmptyArr
    /\ dmax_arr = EmptyArr
    /\ frozen_a = EmptyArr
    /\ stack = <<<<initial_statep, 0>>>>
    /\ visited = {}
    /\ results = <<>>
    /\ order_ids = <<>>
    /\ pos = 0
    /\ sweeps = 0
    /\ result = None
    /\ ref_lo = EmptyArr
    /\ ref_hi = EmptyArr
    /\ evals = EmptyDist
    /\ requests = EmptyDist
    /\ loops = 1
    /\ trace = <<>>
    /\ first = None
    /\ self_min = EmptyDist
    /\ self_max = EmptyDist
    /\ self_frozen = {}
    /\ damages_cache = EmptyDist
    /\ crit_cache = EmptyDist
    /\ other_keys = {}

SpecTopo == InitTopo /\ [][topoSort]_vars

(***************************************************************************)
(* Properties of evaluate.                                                 *)
(***************************************************************************)
\* evaluate is past build_graph and the seeding.
Solving == pc \in {"topo", "test", "sweep", "done"}

\* C1: interval containment.  After every node update of every sweep, each
\* node's true value lies between its bounds.  The true value (the least
\* fixed point of: Choice = max, Chance = weighted sum, win = 1, loss = 0)
\* lies between the iterates of that operator started at 0 and at 1, which
\* ref_lo and ref_hi hold, so dmin_arr[i] <= ref_lo[i] <= ref_hi[i] <=
\* dmax_arr[i] for every node i.
C1_IntervalContainment ==
    \A i \in DOMAIN dmin_arr :
        /\ FxLeq(dmin_arr[i], ref_lo[i])
        /\ FxLeq(ref_lo[i], ref_hi[i])
        /\ FxLeq(ref_hi[i], dmax_arr[i])

\* A sweep is over and the root, on a cycle through Super Potion, is open with
\* both bounds moved off 0 and 1.
C1_Witness ==
    /\ pc = "test"
    /\ sweeps >= 1
    /\ FxLess(FxZero, dmin_arr[i_init])
    /\ FxLess(dmin_arr[i_init], dmax_arr[i_init])
    /\ FxLess(dmax_arr[i_init], FxOne)

\* C2: bound monotonicity.  No step lowers a node's lower bound or raises
\* its upper bound.
C2_BoundMonotonicity ==
    [][\A i \in (DOMAIN dmin_arr) \cap (DOMAIN dmin_arr') :
          /\ FxLeq(dmin_arr[i], dmin_arr'[i])
          /\ FxLeq(dmax_arr'[i], dmax_arr[i])]_vars

\* In a second or later sweep, the node about to be recomputed is a
\* non-frozen Choice or Chance node whose bounds an earlier sweep has moved.
C2_Witness ==
    /\ pc = "sweep"
    /\ sweeps >= 2
    /\ ~frozen_a[order_ids[pos]]
    /\ FxLess(FxZero, dmin_arr[order_ids[pos]])
    /\ FxLess(dmax_arr[order_ids[pos]], FxOne)

\* C3: in every state every non-frozen node has lower bound <= upper bound,
\* and the update of a non-frozen node whose recomputed bounds are equal
\* marks it frozen in that step.
C3_OrderedOrFrozen ==
    /\ [](\A i \in DOMAIN dmin_arr : ~frozen_a[i] => FxLeq(dmin_arr[i], dmax_arr[i]))
    /\ [][pc = "sweep" =>
            ((/\ ~frozen_a[order_ids[pos]]
              /\ Recomputed(dmin_arr, order_ids[pos]) = Recomputed(dmax_arr, order_ids[pos]))
             => frozen_a'[order_ids[pos]])]_vars

\* The node about to be recomputed is not frozen and its recomputed bounds
\* are equal.
C3_Witness ==
    /\ pc = "sweep"
    /\ ~frozen_a[order_ids[pos]]
    /\ kinds[order_ids[pos]] # 4
    /\ Recomputed(dmin_arr, order_ids[pos]) = Recomputed(dmax_arr, order_ids[pos])

\* C4: freezing is permanent.  No step changes the lower bound, the upper
\* bound or the flag of a frozen node.
C4_FreezingPermanent ==
    [][\A i \in (DOMAIN frozen_a) \cap (DOMAIN frozen_a') :
          frozen_a[i] => /\ frozen_a'[i]
                         /\ dmin_arr'[i] = dmin_arr[i]
                         /\ dmax_arr'[i] = dmax_arr[i]]_vars

\* A later sweep comes to a Choice or Chance node that an earlier step froze
\* while some successor of it is still open.
C4_Witness ==
    /\ pc = "sweep"
    /\ sweeps >= 2
    /\ frozen_a[order_ids[pos]]
    /\ kinds[order_ids[pos]] = 0
    /\ \E k \in DOMAIN succ_states[order_ids[pos]] :
          ~frozen_a[succ_states[order_ids[pos]][k]]

\* C5: terminal seeding.  From before the first sweep to the return, the
\* loss node has bounds (0, 0), the win node has bounds (1, 1), and both are
\* frozen.
C5_TerminalSeeding ==
    Solving =>
        /\ loss \in DOMAIN id_of =>
              /\ dmin_arr[id_of[loss]] = FxZero
              /\ dmax_arr[id_of[loss]] = FxZero
              /\ frozen_a[id_of[loss]]
        /\ win \in DOMAIN id_of =>
              /\ dmin_arr[id_of[win]] = FxOne
              /\ dmax_arr[id_of[win]] = FxOne
              /\ frozen_a[id_of[win]]

\* evaluate has returned after at least one sweep over a graph that holds
\* both terminals.
C5_Witness ==
    /\ pc = "done"
    /\ sweeps >= 1
    /\ loss \in DOMAIN id_of
    /\ win \in DOMAIN id_of


PositiveTol == ~tolerance.neg /\ tolerance.mag # FxZero
NonPositiveTol == tolerance.neg \/ tolerance.mag = FxZero
RootClosed == dmin_arr[i_init] = dmax_arr[i_init]

\* C6: convergence.  For every tolerance > 0 (0.5, 0.192, 0.05) evaluate
\* returns after finitely many sweeps, and the midpoint it returns is at
\* distance less than the tolerance from the root's true value.  Stated on
\* finite runs: a sweep is always at a node of order_ids (it ends after
\* len(order_ids) updates); the loop test reached after MaxSweeps sweeps
\* fails, so that no run is stopped by the bound on the sweeps and every run
\* returns within MaxSweeps sweeps; and the value returned is less than the
\* tolerance away from every value between the reference iterates
\* ref_lo[root] and ref_hi[root], which enclose the true value.
C6_Convergence ==
    PositiveTol =>
        /\ pc = "sweep" => pos \in 1..Len(order_ids)
        /\ pc = "test" /\ sweeps >= MaxSweeps =>
              ~WidthExceeds(dmin_arr[i_init], dmax_arr[i_init], tolerance)
        /\ pc = "done" =>
              /\ result = FxMid(dmin_arr[i_init], dmax_arr[i_init])
              /\ FxLess(result, FxAdd(ref_lo[i_init], tolerance.mag))
              /\ FxLess(ref_hi[i_init], FxAdd(result, tolerance.mag))

\* evaluate has returned for a tolerance > 0 after two sweeps or more, the
\* root's interval still open.
C6_Witness ==
    /\ pc = "done"
    /\ PositiveTol
    /\ sweeps >= 2
    /\ FxLess(dmin_arr[i_init], dmax_arr[i_init])

\* C7: for every tolerance <= 0 evaluate returns only with the root's
\* interval closed, returning that value, and once the interval is closed
\* the loop test fails, so that evaluate leaves the loop and returns.
C7_ReturnsOnceClosed ==
    NonPositiveTol =>
        /\ pc = "done" => RootClosed /\ result = dmin_arr[i_init]
        /\ pc = "test" /\ RootClosed =>
              ~WidthExceeds(dmin_arr[i_init], dmax_arr[i_init], tolerance)

\* The probabilities of a Chance node's outcome list, summed.
ProbSum(pairs) == SumOver(DOMAIN pairs, [k \in DOMAIN pairs |-> pairs[k][2]])

\* C8: probability conservation.  The probabilities in the outcome list of
\* every Resolve (tag 1) and Outcome (tag 2) node sum to 1: their numerators
\* sum to the denominator of the node's kind.
C8_ProbabilityConservation ==
    \A i \in DOMAIN succ_pairs :
        kinds[i] \in {1, 2} => ProbSum(succ_pairs[i]) = ProbDen(kinds[i])

\* A Resolve node and an Outcome node are built whose outcome lists hold a
\* terminal that several results were merged into, next to other outcomes.
C8_Witness ==
    /\ loss \in DOMAIN id_of
    /\ \E i \in DOMAIN succ_pairs :
          /\ kinds[i] = 1
          /\ Len(succ_pairs[i]) >= 3
          /\ \E k \in DOMAIN succ_pairs[i] :
                /\ succ_pairs[i][k][1] = id_of[loss]
                /\ succ_pairs[i][k][2] > PairDiv * CritDivLow
    /\ \E i \in DOMAIN succ_pairs :
          /\ kinds[i] = 2
          /\ Len(succ_pairs[i]) >= 3
          /\ \E k \in DOMAIN succ_pairs[i] :
                /\ states[succ_pairs[i][k][1]].tag = 4
                /\ succ_pairs[i][k][2] > CritDivLow

\* Greatest magnitude of the hp changes tried on applyHPChange.
MaxChange == 60

\* Every action of either side: the attacks of attack_data and the potion.
AllActions == DOMAIN attack_data \cup {"Super Potion"}

HpInRange(h) == h.hp >= 0 /\ h.hp <= h.fixed.maxhp

\* hp + change cut to [0, maxhp], every other field as it was.
ClampsHp(h) ==
    \A change \in (0 - MaxChange)..MaxChange :
        /\ applyHPChange(h, change).hp =
              (IF h.hp + change < 0 THEN 0
               ELSE IF h.hp + change > h.fixed.maxhp THEN h.fixed.maxhp
               ELSE h.hp + change)
        /\ [applyHPChange(h, change) EXCEPT !.hp = h.hp] = h

\* C9: in every GameState reached, each combatant's hp is in [0, maxhp]:
\* in every key discovered, and in every result of every action of either
\* side on the state about to be expanded; on the halves of that state
\* applyHPChange cuts hp + change to [0, maxhp] for every change up to
\* MaxChange either way and leaves every other field unchanged.
C9_HpInRange ==
    /\ \A i \in DOMAIN states :
          states[i].tag # 4 =>
              HpInRange(states[i].state[1]) /\ HpInRange(states[i].state[2])
    /\ (pc = "build" /\ q # <<>> /\ Head(q).tag # 4) =>
          /\ ClampsHp(Head(q).state[1])
          /\ ClampsHp(Head(q).state[2])
          /\ \A side \in {0, 1} : \A act \in AllActions :
                \A ns \in DOMAIN _applyAction(Head(q).state, side, act) :
                    HpInRange(ns[1]) /\ HpInRange(ns[2])

\* The state about to be expanded has the first combatant hurt, so that the
\* potion would overshoot maxhp, and within reach of a hit that would take
\* hp below 0.
C9_Witness ==
    /\ pc = "build"
    /\ q # <<>>
    /\ Head(q).tag = 0
    /\ Head(q).state[1].hp < Head(q).state[1].fixed.maxhp
    /\ Head(q).state[1].hp + PotionHeal > Head(q).state[1].fixed.maxhp
    /\ \E ns \in DOMAIN _applyAction(Head(q).state, 1, "Bubblebeam") : ns[1].hp = 0
    /\ \E ns \in DOMAIN _applyAction(Head(q).state, 0, "Super Potion") :
          ns[1].hp = ns[1].fixed.maxhp

\* C10: graph identity in build_graph.  In every state id_of is injective,
\* the ids are exactly 0..len(states)-1, the root has id 0,
\* states[id_of[k]] = k, and the queue holds exactly the keys not yet
\* expanded, each once, in id order; no step changes the id of a seen key,
\* and the keys a step discovers get their ids in the order of the
\* successor list.
C10_GraphIdentity ==
    /\ [](/\ Cardinality({id_of[k] : k \in DOMAIN id_of}) = Cardinality(DOMAIN id_of)
          /\ {id_of[k] : k \in DOMAIN id_of} = 0..(ArrLen(states) - 1)
          /\ DOMAIN states = 0..(ArrLen(states) - 1)
          /\ id_of[initial_statep] = 0
          /\ \A k \in DOMAIN id_of : states[id_of[k]] = k
          /\ q = [j \in 1..(ArrLen(states) - ArrLen(kinds)) |->
                     states[ArrLen(kinds) + j - 1]])
    /\ [][/\ \A k \in DOMAIN id_of : k \in DOMAIN id_of' /\ id_of'[k] = id_of[k]
          /\ (pc = "build" /\ q # <<>> /\ Head(q).tag # 4) =>
                \A a, b \in DOMAIN successors'[Head(q)][2] :
                    (/\ a < b
                     /\ successors'[Head(q)][2][a] \notin DOMAIN id_of
                     /\ successors'[Head(q)][2][b] \notin DOMAIN id_of)
                    => id_of'[successors'[Head(q)][2][a]]
                         < id_of'[successors'[Head(q)][2][b]]]_vars

\* The Outcome key about to be expanded has a Propose successor and a
\* terminal successor that were both discovered before it, through other
\* predecessors.
C10_Witness ==
    /\ pc = "build"
    /\ q # <<>>
    /\ Head(q).tag = 2
    /\ \E k \in DOMAIN _getSuccessorsC(Head(q)) :
          /\ _getSuccessorsC(Head(q))[k][1] \in DOMAIN id_of
          /\ _getSuccessorsC(Head(q))[k][1].tag = 0
    /\ \E k \in DOMAIN _getSuccessorsC(Head(q)) :
          /\ _getSuccessorsC(Head(q))[k][1] \in DOMAIN id_of
          /\ _getSuccessorsC(Head(q))[k][1].tag = 4
(***************************************************************************)
(* The memo table.                                                         *)
(***************************************************************************)
NonTerminalKeys == {k \in DOMAIN id_of : k.tag # 4}

\* C11: on one Battle instance the successor computation runs at most once
\* per key over build_graph, topoSort and the sweeps: every key computed is
\* computed once and is the cached ones, an entry of the memo table never
\* changes once stored, so every later call returns it, and build_graph
\* requests the successors of a non-terminal key exactly once (of every one
\* of them once its queue is empty).
C11_AtMostOnceEvaluation ==
    /\ [](/\ DOMAIN evals = DOMAIN successors
          /\ \A k \in DOMAIN evals : evals[k] = 1 /\ k.tag # 4
          /\ DOMAIN requests \subseteq NonTerminalKeys
          /\ \A k \in DOMAIN requests : requests[k] = 1
          /\ (pc # "build" \/ q = <<>>) => DOMAIN requests = NonTerminalKeys)
    /\ [][\A k \in DOMAIN successors :
            k \in DOMAIN successors' /\ successors'[k] = successors[k]]_vars

\* topoSort has asked for the successor list of a key build_graph had
\* already requested, and the computation still ran once for it.
C11_Witness ==
    /\ pc = "topo"
    /\ \E k \in visited : k.tag # 4 /\ evals[k] = 1 /\ requests[k] = 1

(***************************************************************************)
(* The order of a Chance node's outcomes.                                  *)
(***************************************************************************)
ChanceIds == {i \in DOMAIN succ_pairs : kinds[i] \in {1, 2}}

\* Outcomes k and k + 1 of Chance node i have the same probability.
TiedAt(i, k) == succ_pairs[i][k][2] = succ_pairs[i][k + 1][2]

SuccList(k) == IF k.tag = 4 THEN <<>> ELSE successors[k][2]

\* The keys reachable from the keys of S.
RECURSIVE ReachFrom(_)
ReachFrom(S) ==
    LET T == S \cup UNION {{SuccList(k)[i] : i \in DOMAIN SuccList(k)} : k \in S}
    IN  IF T = S THEN S ELSE ReachFrom(T)

\* The pushes the nodes of S would still cause: two pops and one push per
\* successor for each.
RECURSIVE PendingWork(_)
PendingWork(S) ==
    IF S = {} THEN 0
    ELSE LET k == CHOOSE x \in S : TRUE
         IN  2 + Len(SuccList(k)) + PendingWork(S \ {k})

\* A quantity every turn of topoSort's loop makes smaller.
TopoMeasure == Len(stack) + PendingWork(DOMAIN id_of \ visited)

\* C13: the order topoSort builds holds each node at most once and only nodes
\* reachable from the root, the assertion 'current in visited' holds of
\* every entry popped in state 1, and the loop terminates: while it runs the
\* stack is not empty and every turn decreases a natural-valued measure.
C13_TopoSort ==
    /\ [](/\ \A i, j \in DOMAIN results : i # j => results[i] # results[j]
          /\ \A i \in DOMAIN results : results[i] \in ReachFrom({initial_statep})
          /\ \A k \in DOMAIN stack : stack[k][2] = 1 => stack[k][1] \in visited
          /\ pc = "topo" => stack # <<>> /\ TopoMeasure >= 0)
    /\ [][pc = "topo" => TopoMeasure' < TopoMeasure]_vars

\* topoSort has returned from a graph with a cycle through the root and a
\* node that two different nodes lead to, one node left unreachable.
C13_Witness ==
    /\ pc = "test"
    /\ Len(results) = 2
    /\ \E k \in DOMAIN successors : k \notin ReachFrom({initial_statep})
    /\ \E i \in DOMAIN SuccList(initial_statep) :
          initial_statep \in ReachFrom({SuccList(initial_statep)[i]})
    /\ \E a, b, c \in visited :
          /\ a # b
          /\ \E i \in DOMAIN SuccList(a) : SuccList(a)[i] = c
          /\ \E i \in DOMAIN SuccList(b) : SuccList(b)[i] = c

(***************************************************************************)
(* The transition function.                                                *)
(***************************************************************************)
\* The key being expanded holds a GameState.
Expanding == pc = "build" /\ q # <<>> /\ Head(q).tag # 4

\* (a, b, extra) with its sides exchanged.
Swapped(state) == <<state[2], state[1], state[3]>>

\* The distributions d1 and d0 hold the same probabilities, the keys of d1
\* being the keys of d0 with the sides exchanged.
Mirrored(d1, d0) ==
    /\ DOMAIN d1 = {Swapped(k) : k \in DOMAIN d0}
    /\ \A k \in DOMAIN d0 : d1[Swapped(k)] = d0[k]

\* C14: for the state about to be expanded and every action, the result of
\* the action by side 1 is the result of the action by side 0 on the swapped
\* state with the two halves of every key swapped back and the same
\* probabilities; swapping twice gives the original state, extra untouched:
\* swapping back the swapped state gives the state, swapping a result back
\* twice gives the result, and every key of the side-1 result keeps the
\* state's extra and the half of side 0 apart from its hp.
C14_SideSwap ==
    Expanding =>
        /\ Swapped(Swapped(Head(q).state)) = Head(q).state
        /\ DOMAIN SwapBack([k \in {Swapped(Head(q).state)} |-> DenCrit])
              = {Head(q).state}
        /\ \A act \in AllActions :
              /\ Mirrored(_applyAction(Head(q).state, 1, act),
                          _applyAction(Swapped(Head(q).state), 0, act))
              /\ SwapBack(SwapBack(_applyAction(Swapped(Head(q).state), 0, act)))
                    = _applyAction(Swapped(Head(q).state), 0, act)
              /\ \A k \in DOMAIN _applyAction(Head(q).state, 1, act) :
                    /\ k[3] = Head(q).state[3]
                    /\ [k[1] EXCEPT !.hp = Head(q).state[1].hp] = Head(q).state[1]

\* The state about to be expanded has two different sides, and an attack by
\* side 1 on it has several results, one of them with side 0 at hp 0.
C14_Witness ==
    /\ Expanding
    /\ Head(q).state[1] # Head(q).state[2]
    /\ Cardinality(DOMAIN _applyAction(Head(q).state, 1, "Water Gun")) >= 3
    /\ \E k \in DOMAIN _applyAction(Head(q).state, 1, "Water Gun") : k[1].hp = 0

(***************************************************************************)
(* Repeated calls.                                                         *)
(***************************************************************************)
\* Sequence a is an initial part of sequence b.
IsPrefix(a, b) == Len(a) <= Len(b) /\ \A k \in DOMAIN a : a[k] = b[k]

C16_NoPersistedState ==
    /\ (loops >= 2 /\ pc = "stateps" /\ visited = {}) =>
          /\ successors = EmptyDist
          /\ self_frozen = {win, loss}
          /\ \A k \in DOMAIN self_min : self_min[k] = (IF k = win THEN FxOne ELSE FxZero)
          /\ \A k \in DOMAIN self_max : self_max[k] = (IF k = loss THEN FxZero ELSE FxOne)
    /\ (loops >= 2 /\ pc = "ddone" /\ tolerance = first.tolerance) =>
          result = first.result


AttackDamages(state, act) ==
    CritDistOf(CHOOSE c \in ActionCalls(state, 0, act) : TRUE)

\* The defender of state with dmg taken off its hp, not below 0.
Hit(state, dmg) ==
    [state[2] EXCEPT !.hp = IF state[2].hp > dmg THEN state[2].hp - dmg ELSE 0]

\* res is the result of an attack with damage distribution dmg_dist on state.
AttackFrame(state, res, dmg_dist) ==
    /\ \A k \in DOMAIN res :
         /\ k[1] = state[1]
         /\ k[3] = state[3]
         /\ \E dmg \in DOMAIN dmg_dist : k[2] = Hit(state, dmg)
         /\ res[k] = SumOver({dmg \in DOMAIN dmg_dist : Hit(state, dmg) = k[2]},
                             dmg_dist)
    /\ \A dmg \in DOMAIN dmg_dist : <<state[1], Hit(state, dmg), state[3]>> \in DOMAIN res
    /\ SumOver(DOMAIN res, res) = SumOver(DOMAIN dmg_dist, dmg_dist)

\* C19: for the state about to be expanded and every attack, applied by side
\* 0: every successor state is the state with the defender's hp replaced by
\* max(0, hp - dmg) for a damage value dmg of the crit distribution, the
\* attacker's half and extra unchanged; the probability of a successor is the
\* sum of the probabilities of the damage values that lead to it, every
\* damage value leads to a successor, and the successors' probabilities total
\* the mass of the crit distribution.
C19_AttackTransition ==
    Expanding =>
        \A act \in DOMAIN attack_data :
            AttackFrame(Head(q).state, _applyAction(Head(q).state, 0, act),
                        AttackDamages(Head(q).state, act))

\* The key about to be expanded is an Outcome key whose second mover, side 0,
\* attacks; the attack has a successor with the defender at hp 0 that several
\* damage values lead to, and another that leaves the defender standing.
C19_Witness ==
    /\ Expanding
    /\ Head(q).tag = 2
    /\ Head(q).side = 0
    /\ Head(q).act \in DOMAIN attack_data
    /\ \E d1, d2 \in DOMAIN AttackDamages(Head(q).state, Head(q).act) :
         d1 # d2 /\ Hit(Head(q).state, d1).hp = 0 /\ Hit(Head(q).state, d2).hp = 0
    /\ \E k \in DOMAIN _applyAction(Head(q).state, 0, Head(q).act) : k[2].hp > 0


\* The weight, over PairDiv, with which side acts first against an opponent
\* move of weight w over MoveWeightSum: the whole weight for the side of
\* strictly greater priority, half of it for either side on equal priority.
FirstWeight(state, action, w, side) ==
    LET mine   == state[1].stats[3]
                    + (IF action = "Super Potion" THEN PriorityBonus ELSE 0)
        theirs == state[2].stats[3]
    IN  IF mine = theirs THEN w
        ELSE IF (side = 0) = (mine > theirs) THEN 2 * w
        ELSE 0

\* The key the result ns of the first action is filed under.
SecondKey(ns, side2, act2) ==
    IF ns[1].hp = 0 THEN loss
    ELSE IF ns[2].hp = 0 THEN win
    ELSE [tag |-> 2, state |-> ns, side |-> side2, act |-> act2, won |-> FALSE]

\* The probability with which act1 by side1 alone leads to key k.
MassVia(state, side1, act1, side2, act2, k) ==
    SumOver({ns \in DOMAIN _applyAction(state, side1, act1) :
                SecondKey(ns, side2, act2) = k},
            _applyAction(state, side1, act1))

KeysVia(state, side1, act1, side2, act2) ==
    {SecondKey(ns, side2, act2) : ns \in DOMAIN _applyAction(state, side1, act1)}

\* The probability of key k after the opponent's move eact of weight w.
MoveMass(state, action, eact, w, k) ==
    FirstWeight(state, action, w, 0) * MassVia(state, 0, action, 1, eact, k)
      + FirstWeight(state, action, w, 1) * MassVia(state, 1, eact, 0, action, k)

MoveKeys(state, action, eact, w) ==
    (IF FirstWeight(state, action, w, 0) > 0
     THEN KeysVia(state, 0, action, 1, eact) ELSE {})
    \cup (IF FirstWeight(state, action, w, 1) > 0
          THEN KeysVia(state, 1, eact, 0, action) ELSE {})

\* pairs is the successor list the claim gives the Resolve key of state and
\* action.
Initiative(state, action, pairs) ==
    /\ {pairs[i][1] : i \in DOMAIN pairs}
          = MoveKeys(state, action, "Water Gun", WaterGunWeight)
              \cup MoveKeys(state, action, "Bubblebeam", BubblebeamWeight)
    /\ \A i, j \in DOMAIN pairs : pairs[i][1] = pairs[j][1] => i = j
    /\ \A i \in DOMAIN pairs :
         pairs[i][2] = MoveMass(state, action, "Water Gun", WaterGunWeight,
                                pairs[i][1])
                         + MoveMass(state, action, "Bubblebeam", BubblebeamWeight,
                                    pairs[i][1])

\* C20: for the Resolve key about to be expanded and each opponent move of
\* probability p, the side of strictly greater priority (the proposer's
\* speed, plus 10000 when it proposes Super Potion, against the opponent's
\* speed) acts first with weight p, and on equal priority either side acts
\* first with weight p/2; a successor is loss, win or the Outcome key of the
\* state after the first action alone with the second mover's side and
\* action, and its probability is the sum over moves and orderings.
C20_Initiative ==
    Expanding /\ Head(q).tag = 1 =>
        Initiative(Head(q).state, Head(q).act, _getSuccessorsB(Head(q)))

\* The Resolve key about to be expanded has sides of equal priority and an
\* attack proposed, and its successors hold Outcome keys of both orderings.
C20_Witness ==
    /\ Expanding
    /\ Head(q).tag = 1
    /\ Head(q).act \in DOMAIN attack_data
    /\ Head(q).state[1].stats[3] = Head(q).state[2].stats[3]
    /\ \E i, j \in DOMAIN _getSuccessorsB(Head(q)) :
         /\ _getSuccessorsB(Head(q))[i][1].tag = 2
         /\ _getSuccessorsB(Head(q))[i][1].side = 0
         /\ _getSuccessorsB(Head(q))[j][1].tag = 2
         /\ _getSuccessorsB(Head(q))[j][1].side = 1


\* The states the action of key sp produces: those of the second action for
\* an Outcome key, those of the first action of either ordering that has a
\* weight for a Resolve key.
Produced(sp) ==
    IF sp.tag = 2 THEN DOMAIN _applyAction(sp.state, sp.side, sp.act)
    ELSE UNION {
           (IF FirstWeight(sp.state, sp.act, 1, 0) > 0
            THEN DOMAIN _applyAction(sp.state, 0, sp.act) ELSE {})
           \cup (IF FirstWeight(sp.state, sp.act, 1, 1) > 0
                 THEN DOMAIN _applyAction(sp.state, 1, eact) ELSE {}) :
           eact \in {"Water Gun", "Bubblebeam"}}

\* The successor keys the code computes for sp.
SuccessorKeys(sp) ==
    {ComputeSuccessors(sp)[2][k] : k \in DOMAIN ComputeSuccessors(sp)[2]}

\* keys classifies the states of produced: win is there exactly when a state
\* has the opponent at hp 0, loss exactly when one has the proposer at hp 0,
\* the other states are held by the non-terminal keys, and no state has both
\* sides at hp 0.
Classified(produced, keys) ==
    /\ \A ns \in produced : ~(ns[1].hp = 0 /\ ns[2].hp = 0)
    /\ win \in keys <=> \E ns \in produced : ns[2].hp = 0
    /\ loss \in keys <=> \E ns \in produced : ns[1].hp = 0
    /\ {k.state : k \in {k2 \in keys : k2.tag # 4}}
          = {ns \in produced : ns[1].hp > 0 /\ ns[2].hp > 0}

\* C21: the states produced by the action of the Resolve or Outcome key about
\* to be expanded are filed under win exactly when the opponent's hp is 0,
\* under loss exactly when the proposer's hp is 0 and under a non-terminal
\* key otherwise, no produced state has both hp at 0, and every non-terminal
\* key discovered so far holds a state with both hp above 0.
C21_OutcomeClassification ==
    /\ \A i \in DOMAIN states :
         states[i].tag # 4 =>
            states[i].state[1].hp > 0 /\ states[i].state[2].hp > 0
    /\ Expanding /\ Head(q).tag \in {1, 2} =>
         Classified(Produced(Head(q)), SuccessorKeys(Head(q)))

\* The key about to be expanded produces a state with the opponent at hp 0
\* and a state with both sides standing, and both terminals have been
\* discovered.
C21_Witness ==
    /\ Expanding
    /\ Head(q).tag \in {1, 2}
    /\ \E ns \in Produced(Head(q)) : ns[2].hp = 0
    /\ \E ns \in Produced(Head(q)) : ns[1].hp > 0 /\ ns[2].hp > 0
    /\ win \in DOMAIN id_of
    /\ loss \in DOMAIN id_of


\* C22: evaluate run over another permutation of the ids in place of the
\* elimination order stays correct.  After every node update each node's
\* bounds enclose the reference iterates, which enclose its true value; they
\* overlap the bounds the run in topoSort's order ended with, and a node both
\* runs froze has the same value in both (one fixed point); for a tolerance
\* > 0 the loop test reached after MaxSweeps sweeps fails, and evaluate
\* returns with the root's width within the tolerance.
C22_OrderIndependence ==
    loops > 1 /\ pc \in {"test", "sweep", "done"} =>
        /\ \A i \in DOMAIN dmin_arr :
             /\ FxLeq(dmin_arr[i], ref_lo[i])
             /\ FxLeq(ref_lo[i], ref_hi[i])
             /\ FxLeq(ref_hi[i], dmax_arr[i])
             /\ FxLeq(dmin_arr[i], first.hi[i])
             /\ FxLeq(first.lo[i], dmax_arr[i])
             /\ frozen_a[i] /\ first.frozen[i] => dmin_arr[i] = first.lo[i]
        /\ PositiveTol =>
             /\ pc = "test" /\ sweeps >= MaxSweeps =>
                  ~WidthExceeds(dmin_arr[i_init], dmax_arr[i_init], tolerance)
             /\ pc = "done" =>
                  ~WidthExceeds(dmin_arr[i_init], dmax_arr[i_init], tolerance)

\* evaluate has returned for a tolerance > 0 over an order that is not
\* topoSort's, after more sweeps than topoSort's order took.
C22_Witness ==
    /\ loops = 2
    /\ pc = "done"
    /\ PositiveTol
    /\ order_ids # first.order_ids
    /\ sweeps > first.sweeps


\* The keys of which the second pop is still to come: the depth-first stack.
OnPath(stk) == {stk[k][1] : k \in {j \in DOMAIN stk : stk[j][2] = 1}}

Finished == {results[k] : k \in DOMAIN results}

\* The place of key v in the order returned so far.
PlaceOf(v) == CHOOSE k \in DOMAIN results : results[k] = v

Acyclic ==
    \A u \in ReachFrom({initial_statep}) :
        u \notin ReachFrom({SuccList(u)[i] : i \in DOMAIN SuccList(u)})

\* C23: topoSort returns a post-order.  When a key u is appended to the
\* order, each successor v of u is already in the order, or is u itself, or
\* is an ancestor of u on the depth-first stack; the order returned ends with
\* the root, so that the last node of a sweep is the root; and on an acyclic
\* graph every key of the order comes after all its successors.
C23_PostOrder ==
    /\ [][\A u \in DOMAIN successors :
            results' = Append(results, u) =>
               \A i \in DOMAIN SuccList(u) :
                  \/ SuccList(u)[i] = u
                  \/ SuccList(u)[i] \in Finished
                  \/ SuccList(u)[i] \in OnPath(stack')]_vars
    /\ [](pc = "test" =>
            /\ results[Len(results)] = initial_statep
            /\ order_ids[Len(order_ids)] = id_of[initial_statep]
            /\ Acyclic =>
                 \A u \in Finished : \A i \in DOMAIN SuccList(u) :
                    PlaceOf(SuccList(u)[i]) < PlaceOf(u))

\* topoSort has returned all keys of a graph in which the key returned first
\* has an edge to the root, a cycle-closing edge, and the root has an edge to
\* a key returned before the key it expanded last.
C23_Witness ==
    /\ pc = "test"
    /\ Len(results) >= 3
    /\ \E i \in DOMAIN SuccList(results[1]) : SuccList(results[1])[i] = initial_statep
    /\ \E i \in DOMAIN SuccList(initial_statep) :
          SuccList(initial_statep)[i] = results[1]


\* The node updates the dict-based evaluate has made so far.
DictUpdates ==
    IF pc = "dsweep" THEN (sweeps - 1) * Len(results) + (pos - 1)
    ELSE sweeps * Len(results)

\* The updates of node i among the first t of the array-based evaluate.
UpdatesOf(i, t) == {k \in 1..t : trace[k][1] = i}

\* dmin_arr[i], dmax_arr[i] and frozen_a[i] as the array-based evaluate had
\* them after t node updates: as its last update of i left them, or as
\* seeded.
ArrayAfter(i, t) ==
    IF UpdatesOf(i, t) = {}
    THEN <<SeedMin(id_of, ArrLen(states))[i], SeedMax(id_of, ArrLen(states))[i],
           SeedFrozen(id_of, ArrLen(states))[i]>>
    ELSE LET k == CHOOSE x \in UpdatesOf(i, t) : \A y \in UpdatesOf(i, t) : y <= x
         IN  <<trace[k][2], trace[k][3], trace[k][4]>>

\* C24: mdp_opt2's evaluate and mdp_opt3's, each on a new Battle with the
\* same tolerance, go step for step: the list topoSort gives the dict-based
\* one is the elimination order key by key; it never makes more node updates
\* than the array-based one made, and after any number of its updates every
\* key sp has self.min[sp], self.max[sp] and (sp in self.frozen) equal to
\* dmin_arr, dmax_arr and frozen_a at id_of[sp] after as many updates; it
\* returns after the same number of sweeps the same value.
C24_VariantsAgree ==
    loops > 1 /\ pc \in {"dtest", "dsweep", "ddone"} =>
        /\ order_ids = [k \in DOMAIN results |-> id_of[results[k]]]
        /\ DictUpdates <= Len(trace)
        /\ \A sp \in DOMAIN id_of :
             <<DictGet(self_min, sp, FxZero), DictGet(self_max, sp, FxOne),
               sp \in self_frozen>> = ArrayAfter(id_of[sp], DictUpdates)
        /\ pc = "ddone" => sweeps = first.sweeps /\ result = first.result

\* The dict-based evaluate has returned after two sweeps or more with a key
\* frozen in a sweep and the root's interval open.
C24_Witness ==
    /\ loops = 2
    /\ pc = "ddone"
    /\ sweeps >= 2
    /\ \E sp \in self_frozen : sp.tag # 4
    /\ initial_statep \notin self_frozen


\* kinds[i], succ_states[i] and succ_pairs[i] describe the key states[i]:
\* its tag, and the ids and probabilities of the successors getSuccessors
\* gave for it, every id that of a key of states.
Describes(i) ==
    /\ kinds[i] = states[i].tag
    /\ states[i].tag = 4 => succ_states[i] = <<>> /\ succ_pairs[i] = <<>>
    /\ states[i].tag = 0 =>
         /\ succ_pairs[i] = None
         /\ DOMAIN succ_states[i] = DOMAIN successors[states[i]][1]
         /\ \A k \in DOMAIN succ_states[i] :
              /\ succ_states[i][k] \in DOMAIN states
              /\ states[succ_states[i][k]] = successors[states[i]][1][k]
    /\ states[i].tag \in {1, 2} =>
         /\ succ_states[i] = None
         /\ DOMAIN succ_pairs[i] = DOMAIN successors[states[i]][1]
         /\ \A k \in DOMAIN succ_pairs[i] :
              /\ succ_pairs[i][k][1] \in DOMAIN states
              /\ states[succ_pairs[i][k][1]] = successors[states[i]][1][k][1]
              /\ succ_pairs[i][k][2] = successors[states[i]][1][k][2]

\* C25: in build_graph the key dequeued has the id len(kinds) ==
\* len(succ_states) == len(succ_pairs); once it has returned the four arrays
\* have one length n and their domain is 0..n-1; and kinds[i], succ_states[i]
\* and succ_pairs[i] describe the key states[i] for every id i they hold,
\* every successor id stored being the id of a key of states.
C25_ArrayAlignment ==
    /\ ArrLen(kinds) = ArrLen(succ_states)
    /\ ArrLen(kinds) = ArrLen(succ_pairs)
    /\ pc = "build" /\ q # <<>> => id_of[Head(q)] = ArrLen(kinds)
    /\ pc \in {"topo", "test", "sweep", "done"} =>
         /\ ArrLen(states) = ArrLen(kinds)
         /\ DOMAIN kinds = 0..(ArrLen(states) - 1)
         /\ DOMAIN succ_states = DOMAIN kinds
         /\ DOMAIN succ_pairs = DOMAIN kinds
    /\ \A i \in DOMAIN kinds : Describes(i)

\* build_graph has returned a graph in which a Chance node has an outcome of
\* a smaller id than its own and one of a greater id, and a Choice node that
\* is not the root has been filed.
C25_Witness ==
    /\ pc = "topo"
    /\ \E i \in DOMAIN kinds :
         /\ kinds[i] \in {1, 2}
         /\ \E a, b \in DOMAIN succ_pairs[i] :
              succ_pairs[i][a][1] < i /\ succ_pairs[i][b][1] > i
    /\ \E i \in DOMAIN kinds : i > 0 /\ kinds[i] = 0


\* The dict-based loop body is about to take its freeze branch for key sp.
DictFreezeTaken(sp) ==
    /\ sp \notin self_frozen
    /\ FxLeq(DictRecomputed(self_max, FxOne, sp, CacheAfter(successors, sp)[sp]),
             DictRecomputed(self_min, FxZero, sp,
                            CacheAfter(successors, sp)[sp]))

\* C26: between node updates of evaluate a node is frozen exactly when its
\* two bounds are equal, in the array-based and in the dict-based variant;
\* a step that freezes a node (the freeze branch) is taken only with the
\* recomputed bounds equal, and the midpoint it stores is the value of both.
C26_FrozenIffClosed ==
    /\ [](pc \in {"test", "sweep", "done"} =>
            \A i \in DOMAIN frozen_a : frozen_a[i] <=> dmin_arr[i] = dmax_arr[i])
    /\ [](pc \in {"dtest", "dsweep", "ddone"} =>
            \A sp \in DOMAIN id_of :
               sp \in self_frozen <=>
                  DictGet(self_min, sp, FxZero) = DictGet(self_max, sp, FxOne))
    /\ [][pc = "sweep" /\ ~frozen_a[order_ids[pos]] /\ frozen_a'[order_ids[pos]] =>
            /\ Recomputed(dmin_arr, order_ids[pos]) = Recomputed(dmax_arr, order_ids[pos])
            /\ dmin_arr'[order_ids[pos]] = Recomputed(dmin_arr, order_ids[pos])
            /\ dmax_arr'[order_ids[pos]] = Recomputed(dmax_arr, order_ids[pos])]_vars
    /\ [][pc = "dsweep" /\ results[pos] \notin self_frozen
                       /\ results[pos] \in self_frozen' =>
            /\ self_min'[results[pos]] = self_max'[results[pos]]
            /\ self_min'[results[pos]] =
                 DictRecomputed(self_min, FxZero, results[pos],
                    CacheAfter(successors, results[pos])[results[pos]])
            /\ self_max'[results[pos]] =
                 DictRecomputed(self_max, FxOne, results[pos],
                    CacheAfter(successors, results[pos])[results[pos]])]_vars

\* The dict-based sweep is about to take the freeze branch for a Chance key,
\* after the array-based evaluate froze a Choice node and a Chance node in
\* its sweeps.
C26_Witness ==
    /\ pc = "dsweep"
    /\ results[pos].tag \in {1, 2}
    /\ DictFreezeTaken(results[pos])
    /\ \E i, j \in DOMAIN frozen_a :
         frozen_a[i] /\ frozen_a[j] /\ kinds[i] = 0 /\ kinds[j] \in {1, 2}


\* The keys stored as the successors of the node of id i.
StoredSuccessors(i) ==
    IF kinds[i] = 0
    THEN {states[succ_states[i][k]] : k \in DOMAIN succ_states[i]}
    ELSE {states[succ_pairs[i][k][1]] : k \in DOMAIN succ_pairs[i]}

\* The keys a path of one edge or more from key sp reaches without leaving a
\* Propose key; depth bounds the edges followed.
RECURSIVE BeyondWithoutPropose(_, _)
BeyondWithoutPropose(sp, depth) ==
    IF depth = 0 \/ sp.tag = 0 THEN {}
    ELSE LET next == StoredSuccessors(id_of[sp])
         IN  next \cup UNION {BeyondWithoutPropose(v, depth - 1) : v \in next}

\* C27: key-kind structure.  A Propose key has exactly two successors, the
\* Resolve keys for attack (Dig) and for recover (Super Potion) on its own
\* GameState, in that order; a Resolve key has one successor or more, each an
\* Outcome key or a terminal; an Outcome key has one successor or more, each a
\* Propose key or a terminal; a terminal has none; and once the graph is
\* built no key other than a Propose key is met again on a path that leaves
\* it, so every cycle passes through a Propose key.
C27_KeyKinds ==
    /\ \A i \in DOMAIN kinds :
         /\ kinds[i] \in {0, 1, 2, 4}
         /\ kinds[i] = 0 =>
              /\ Len(succ_states[i]) = 2
              /\ states[succ_states[i][1]] =
                   [tag |-> 1, state |-> states[i].state, side |-> 0,
                    act |-> "Dig", won |-> FALSE]
              /\ states[succ_states[i][2]] =
                   [tag |-> 1, state |-> states[i].state, side |-> 0,
                    act |-> "Super Potion", won |-> FALSE]
         /\ kinds[i] = 1 =>
              /\ Len(succ_pairs[i]) >= 1
              /\ \A v \in StoredSuccessors(i) : v.tag \in {2, 4}
         /\ kinds[i] = 2 =>
              /\ Len(succ_pairs[i]) >= 1
              /\ \A v \in StoredSuccessors(i) : v.tag \in {0, 4}
         /\ kinds[i] = 4 => StoredSuccessors(i) = {}
    /\ pc \in {"topo", "test", "sweep", "done"} =>
         \A i \in DOMAIN kinds :
            states[i] \notin BeyondWithoutPropose(states[i], ArrLen(states))

\* build_graph has returned a graph that holds a Resolve key with an Outcome
\* key and a terminal among its successors and an Outcome key with a Propose
\* key and a terminal among its successors.
C27_Witness ==
    /\ pc = "topo"
    /\ \E i \in DOMAIN kinds :
         /\ kinds[i] = 1
         /\ \E v, w \in StoredSuccessors(i) : v.tag = 2 /\ w.tag = 4
    /\ \E i \in DOMAIN kinds :
         /\ kinds[i] = 2
         /\ \E v, w \in StoredSuccessors(i) : v.tag = 0 /\ w.tag = 4


\* The node updates of sweep s that are updates of node i.
SweepUpdatesOf(i, s) ==
    {k \in DOMAIN trace :
        /\ (s - 1) * Len(order_ids) < k
        /\ k <= s * Len(order_ids)
        /\ trace[k][1] = i}

\* C28: the elimination order of evaluate is a permutation of the compacted
\* ids 0..n-1, the keys topoSort returned being the keys build_graph found;
\* so between sweeps every node has been come to exactly once in each sweep
\* made, and after the first sweep no Choice or Chance node is still at its
\* initial bounds [0, 1].
C28_OrderIsPermutation ==
    pc \in {"test", "sweep", "done"} =>
        /\ Len(order_ids) = ArrLen(states)
        /\ {order_ids[k] : k \in DOMAIN order_ids} = DOMAIN states
        /\ \A j, k \in DOMAIN order_ids : order_ids[j] = order_ids[k] => j = k
        /\ {results[k] : k \in DOMAIN results} = DOMAIN id_of
        /\ pc \in {"test", "done"} =>
             /\ Len(trace) = sweeps * Len(order_ids)
             /\ \A s \in 1..sweeps : \A i \in DOMAIN states :
                  Cardinality(SweepUpdatesOf(i, s)) = 1
             /\ sweeps >= 1 =>
                  \A i \in DOMAIN states :
                     kinds[i] # 4 =>
                        dmin_arr[i] # FxZero \/ dmax_arr[i] # FxOne

\* evaluate has returned after two sweeps or more over an order of more than
\* twenty ids that does not list them in ascending order.
C28_Witness ==
    /\ pc = "done"
    /\ sweeps >= 2
    /\ Len(order_ids) > 20
    /\ \E k \in DOMAIN order_ids : order_ids[k] # k - 1


\* tolerance >= 1
ToleranceAtLeastOne == ~tolerance.neg /\ FxLeq(FxOne, tolerance.mag)

\* C29: the tolerance test is made only between complete sweeps, in both
\* variants.  With a tolerance >= 1 a fresh evaluate makes no sweep and
\* returns 0.5; with a tolerance < 1 it returns only after one sweep or more;
\* a sweep that has started goes on to the next node of the order until the
\* last, and evaluate returns only from the while test.
C29_TestBetweenSweeps ==
    /\ [](ToleranceAtLeastOne =>
            /\ sweeps = 0
            /\ trace = <<>>
            /\ pc \notin {"sweep", "dsweep"}
            /\ pc \in {"done", "ddone"} => result = FxMulP(FxOne, 1, 2))
    /\ [](~ToleranceAtLeastOne /\ pc = "done" =>
            sweeps >= 1 /\ Len(trace) = sweeps * Len(order_ids))
    /\ [](~ToleranceAtLeastOne /\ pc = "ddone" => sweeps >= 1)
    /\ [][/\ pc = "sweep" /\ pos < Len(order_ids) =>
               pc' = "sweep" /\ pos' = pos + 1
          /\ pc = "dsweep" /\ pos < Len(results) =>
               pc' = "dsweep" /\ pos' = pos + 1
          /\ pc # "done" /\ pc' = "done" => pc = "test"
          /\ pc # "ddone" /\ pc' = "ddone" => pc = "dtest"]_vars

\* The dict-based evaluate has returned 0.5 for a tolerance >= 1, after the
\* array-based one did, on a graph of more than twenty keys.
C29_Witness ==
    /\ pc = "ddone"
    /\ ToleranceAtLeastOne
    /\ first.sweeps = 0
    /\ first.result = FxMulP(FxOne, 1, 2)
    /\ Len(results) > 20


\* The keys getSuccessors has been called with: each call computes and files,
\* or finds filed, an entry of self.successors, and is counted.
CalledWith == DOMAIN successors \cup DOMAIN evals \cup DOMAIN requests

\* C30: getSuccessors is never called with a terminal key, in build_graph, in
\* topoSort or in the sweeps of either variant.  No terminal key is among the
\* keys called with; a turn of build_graph or of topoSort that comes to a
\* terminal, and a step of the dict-based sweep at a terminal, leaves
\* self.successors and the call counts as they are; and the dict-based sweep
\* holds every terminal frozen from before its first step.
C30_NoTerminalLookup ==
    /\ [](\A sp \in CalledWith : sp.tag # 4)
    /\ [](pc \in {"dtest", "dsweep", "ddone"} =>
            \A k \in DOMAIN results : results[k].tag = 4 => results[k] \in self_frozen)
    /\ [][/\ pc = "build" /\ q # <<>> /\ Head(q).tag = 4 =>
               UNCHANGED <<successors, evals, requests>>
          /\ pc \in {"topo", "stateps"} /\ stack # <<>>
                /\ stack[Len(stack)][1].tag = 4 =>
               UNCHANGED <<successors, evals, requests>>
          /\ pc = "dsweep" /\ results[pos].tag = 4 =>
               UNCHANGED <<successors, evals, requests>>
          /\ pc = "sweep" => UNCHANGED <<successors, evals, requests>>]_vars

\* The dict-based sweep comes to a terminal key, after build_graph and
\* topoSort of the array-based evaluate came to both terminals.
C30_Witness ==
    /\ pc = "dsweep"
    /\ loops = 2
    /\ results[pos].tag = 4
    /\ {win, loss} \subseteq DOMAIN id_of
    /\ {win, loss} \subseteq {results[k] : k \in DOMAIN results}
    /\ DOMAIN successors # {}

=============================================================================
